---- MODULE Spec2Model ----
(***************************************************************************)
(* Resurrector: the health-monitoring and incident-orchestration engine.   *)
(*                                                                         *)
(* The model follows the JavaScript execution model of the sources: one    *)
(* thread, run-to-completion.  A "chain" is the synchronous code that runs *)
(* between two real suspension points (a timer sleep or a network fetch).  *)
(* The variable `active` names the poll whose chain is running; a timer    *)
(* tick, start(), stop() and the wake-up of another poll happen only when  *)
(* no chain is running (active = 0).  Within a chain every statement group *)
(* is one step, so that every store mutation and every published event is  *)
(* a visible state.                                                        *)
(*                                                                         *)
(* The event bus is a Node EventEmitter: emit() first pushes the event on  *)
(* the history and then calls the registered handlers on the caller's      *)
(* stack, so an exception of a handler propagates out of emit().  The      *)
(* handlers are an input of the model: `throwOn` is the set of event types *)
(* on which some registered handler throws.                                *)
(***************************************************************************)
EXTENDS Integers, Sequences, FiniteSets, TLC

VARIABLES
    running,              \* Orchestrator.running
    pollTimer,            \* Orchestrator.pollTimer is armed
    pipelineRunning,      \* Orchestrator.pipelineRunning
    lastHealthSnapshot,   \* Orchestrator.lastHealthSnapshot
    consecutiveHealthy,   \* Orchestrator.consecutiveHealthy
    consecutiveUnhealthy, \* Orchestrator.consecutiveUnhealthy
    polls,                \* the monitoringLoop() invocations in flight
    active,               \* the poll whose synchronous chain is running, or 0
    incidents,            \* IncidentManager.incidents, in creation order
    throwOn,              \* event types on which a registered handler throws
    runs,                 \* per runPipeline() call: what it did, in order
    pollLog,              \* the last counter updates, newest last
    eventHistory,         \* ResurrectorEventBus.eventHistory
    handlers,             \* the subscribers of the bus, in subscription order
    published,            \* number of emit() calls since the last clearHistory()
    clears,               \* number of clearHistory() calls
    stream,               \* which stream of event types the publishers produce
    notified,             \* last emit(): the subscribers called, in call order
    raised,               \* last emit(): an exception reached the caller
    givenSnapshot,        \* the snapshot handed to detectAnomalies()
    foundAnomaly,         \* what detectAnomalies() returned for it
    givenHealing,         \* healingSuccess handed to runRecoveryDecisionAgent()
    givenAttempts,        \* attemptedActions.length of its incident
    madeDecision,         \* what the decision body returned
    storeCalls,           \* number of calls made on the incident store
    lastCall,             \* the last of them: the operation and the incident id
    givenProbes,          \* how the sub-probes of getHealthSnapshot() end
    probed,               \* the sub-probes that have settled, with their results
    returnedSnapshot      \* how getHealthSnapshot() ended, and its snapshot

\* The event bus taken on its own.
busVars == <<eventHistory, handlers, published, clears, stream, notified, raised>>

\* The classifier and the decision body taken on their own.
callVars == <<givenSnapshot, foundAnomaly, givenHealing, givenAttempts, madeDecision>>

\* The calls made on the incident store taken on its own.
storeVars == <<storeCalls, lastCall>>

\* One getHealthSnapshot() call taken on its own.
probeVars == <<givenProbes, probed, returnedSnapshot>>

\* The orchestrator, its polls and the incident store.
engineVars == <<running, pollTimer, pipelineRunning, lastHealthSnapshot,
                consecutiveHealthy, consecutiveUnhealthy, polls, active,
                incidents, throwOn, runs, pollLog>>

vars == <<running, pollTimer, pipelineRunning, lastHealthSnapshot,
          consecutiveHealthy, consecutiveUnhealthy, polls, active,
          incidents, throwOn, runs, pollLog,
          eventHistory, handlers, published, clears, stream, notified, raised,
          givenSnapshot, foundAnomaly, givenHealing, givenAttempts,
          madeDecision, storeCalls, lastCall,
          givenProbes, probed, returnedSnapshot>>

----------------------------------------------------------------------------
(* Bounds of the model *)

MaxPolls == 2
MaxIncidents == 2
MaxCount == 3
MaxPublishes == 502
MaxClears == 1
MaxHandlers == 2
MaxAttempts == 4
MaxStoreCalls == 4

(* Constants of the program *)

UnhealthyThreshold == 2
LatencyLimitMs == 2000
ErrorRateLimit == 5
MemoryLimitMB == 200
DRHealthChecks == 5
AttemptsNoted == 3
maxHistory == 500

Slots == 1..MaxPolls

----------------------------------------------------------------------------
(* Event bus *)

EventTypes ==
    {"health:check", "health:healthy", "health:degraded", "anomaly:detected",
     "agent:start", "agent:complete", "agent:error", "incident:created",
     "incident:update", "incident:resolved", "recovery:action",
     "recovery:success", "recovery:failed", "dr:started", "dr:complete",
     "traffic:switching", "traffic:complete", "report:generated",
     "system:status", "chaos:injected"}

\* The handler configurations explored: no failing handler, a handler that
\* fails on one event type, and one that fails on stage completion and on
\* the stage error event as well.
HandlerFaults ==
    {{}} \cup {{t} : t \in EventTypes \ {"chaos:injected"}}
         \cup {{"agent:complete", "agent:error"}}

\* super.emit('event', event): a handler exception reaches the caller.
EmitThrows(type) == type \in throwOn

\* The streams of event types the publishers produce: in stream k every
\* k-th event is an incident:update and the others are health:check.
Streams == {1, 2, 3}

TypeOf(st, n) == IF n % st = 0 THEN "incident:update" ELSE "health:check"

\* BusEvent: its type, and in place of the timestamp and the payload its
\* rank among the events published since the clear before it.
BusEvent(type, epoch, n) == [type |-> type, epoch |-> epoch, seq |-> n]

\* Array.prototype.slice(start) with one argument.
slice(arr, start) ==
    LET from == IF start < 0
                   THEN (IF Len(arr) + start > 0 THEN Len(arr) + start ELSE 0)
                   ELSE (IF start < Len(arr) THEN start ELSE Len(arr))
    IN SubSeq(arr, from + 1, Len(arr))

pushHistoryUnbounded(history, event) == Append(history, event)

\* emit(): the push on eventHistory and the eviction.
pushHistory(history, event) ==
    LET pushed == Append(history, event) IN
    IF Len(pushed) > maxHistory THEN slice(pushed, 0 - maxHistory) ELSE pushed

\* EventEmitter.emit(): the listeners are called in subscription order on the
\* caller's stack; the first one that throws ends the call.  Each listener
\* called is noted with the newest entry it finds in `history`.
callListeners(hs, history) ==
    LET thrower == IF \E k \in DOMAIN hs : hs[k] = "throws"
                      THEN CHOOSE k \in DOMAIN hs :
                              /\ hs[k] = "throws"
                              /\ \A j \in DOMAIN hs : hs[j] = "throws" => k <= j
                      ELSE 0
        called == IF thrower = 0 THEN Len(hs) ELSE thrower
    IN [notified |-> [k \in 1..called |->
                         [handler |-> k,
                          newest |-> IF history = <<>> THEN 0
                                     ELSE history[Len(history)].seq]],
        raised |-> thrower /= 0]

\* ResurrectorEventBus.emit(): push, evict, then super.emit('event', event).
emit(history, hs, event) ==
    LET pushed == pushHistory(history, event)
        call == callListeners(hs, pushed)
    IN [history |-> pushed, notified |-> call.notified, raised |-> call.raised]

\* getHistory(limit)
getHistory(history, limit) == slice(history, 0 - limit)

\* getHistoryByType(type, limit)
getHistoryByType(history, type, limit) ==
    slice(SelectSeq(history, LAMBDA e : e.type = type), 0 - limit)

----------------------------------------------------------------------------
(* Health prober and anomaly classifier *)

\* checkDemoAppHealth(): the results of the reachability probe.
DemoAppResults ==
    { [healthy |-> TRUE,  statusCode |-> 200, responseTimeMs |-> 50],
      [healthy |-> FALSE, statusCode |-> 0,   responseTimeMs |-> 50] }

\* getMetrics(): the metric bundle (a failed query yields 0).
MetricsResults ==
    { [errorRate |-> 0, memoryUsageMB |-> 0],
      [errorRate |-> 0, memoryUsageMB |-> 250] }

\* getHealthSnapshot(): the snapshot assembled from the probes.
HealthSnapshot(demoApp, metrics) ==
    [healthy |-> demoApp.healthy, statusCode |-> demoApp.statusCode,
     responseTimeMs |-> demoApp.responseTimeMs,
     errorRate |-> metrics.errorRate, memoryUsageMB |-> metrics.memoryUsageMB]

NoSnapshot ==
    [healthy |-> FALSE, statusCode |-> -1, responseTimeMs |-> 0,
     errorRate |-> 0, memoryUsageMB |-> 0]

Anomaly(failureType, severity) ==
    [detected |-> TRUE, failureType |-> failureType, severity |-> severity]

NoAnomaly == [detected |-> FALSE, failureType |-> "none", severity |-> "none"]

detectAnomaliesInclusive(snapshot) ==
    IF ~snapshot.healthy /\ snapshot.statusCode = 0
        THEN Anomaly("service_down", "critical")
    ELSE IF ~snapshot.healthy /\ snapshot.statusCode = 503
        THEN Anomaly("service_down", "high")
    ELSE IF snapshot.responseTimeMs >= LatencyLimitMs
        THEN Anomaly("latency_spike", "high")
    ELSE IF snapshot.errorRate >= ErrorRateLimit
        THEN Anomaly("dependency_failure", "high")
    ELSE IF snapshot.memoryUsageMB >= MemoryLimitMB
        THEN Anomaly("memory_leak", "medium")
    ELSE NoAnomaly

detectAnomaliesByFlag(snapshot) ==
    IF ~snapshot.healthy
        THEN Anomaly("service_down", "high")
    ELSE IF snapshot.responseTimeMs > LatencyLimitMs
        THEN Anomaly("latency_spike", "high")
    ELSE IF snapshot.errorRate > ErrorRateLimit
        THEN Anomaly("dependency_failure", "high")
    ELSE IF snapshot.memoryUsageMB > MemoryLimitMB
        THEN Anomaly("memory_leak", "medium")
    ELSE NoAnomaly

detectAnomalies(snapshot) ==
    IF ~snapshot.healthy /\ snapshot.statusCode = 0
        THEN Anomaly("service_down", "critical")
    ELSE IF ~snapshot.healthy /\ snapshot.statusCode = 503
        THEN Anomaly("service_down", "high")
    ELSE IF snapshot.responseTimeMs > LatencyLimitMs
        THEN Anomaly("latency_spike", "high")
    ELSE IF snapshot.errorRate > ErrorRateLimit
        THEN Anomaly("dependency_failure", "high")
    ELSE IF snapshot.memoryUsageMB > MemoryLimitMB
        THEN Anomaly("memory_leak", "medium")
    ELSE NoAnomaly

\* How a sub-probe's request ends.  The service answers 200 with status
\* healthy, 200 with another status, or 503; a request fails when fetch()
\* rejects, and one that times out is aborted or given up, which rejects it.
DemoAppOutcomes == {"healthy", "degraded", "unavailable", "failure", "timeout"}
PrometheusOutcomes == {"ok", "not_ok", "failure", "timeout"}
QueryOutcomes == {"value", "not_ok", "failure", "timeout"}

\* checkDemoAppHealth()
checkDemoAppHealth(outcome) ==
    CASE outcome = "healthy"     -> [healthy |-> TRUE,  statusCode |-> 200]
      [] outcome = "degraded"    -> [healthy |-> FALSE, statusCode |-> 200]
      [] outcome = "unavailable" -> [healthy |-> FALSE, statusCode |-> 503]
      [] OTHER                   -> [healthy |-> FALSE, statusCode |-> 0]

\* checkPrometheusHealth()
checkPrometheusHealth(outcome) == [healthy |-> outcome = "ok"]

\* queryMetric(query): the value the backend holds, or 0.
queryMetric(outcome, value) == IF outcome = "value" THEN value ELSE 0

\* What the metrics backend holds for the five queries of getMetrics().
MetricValues == <<1, 100, 120, 2, 1000>>

\* getMetrics()
getMetrics(outcomes) ==
    [errorRate         |-> queryMetric(outcomes[1], MetricValues[1]),
     latencyP99Ms      |-> queryMetric(outcomes[2], MetricValues[2]),
     memoryUsageMB     |-> queryMetric(outcomes[3], MetricValues[3]),
     podRestarts       |-> queryMetric(outcomes[4], MetricValues[4]),
     httpRequestsTotal |-> queryMetric(outcomes[5], MetricValues[5])]

NoProbes == [demoApp |-> "none", prometheus |-> "none", queries |-> <<>>]

\* The three promises of getHealthSnapshot() before they settle.
NothingProbed ==
    [demoApp    |-> [settled |-> FALSE, healthy |-> FALSE, statusCode |-> -1],
     prometheus |-> [settled |-> FALSE, healthy |-> FALSE],
     metrics    |-> [settled |-> FALSE, errorRate |-> 0, latencyP99Ms |-> 0,
                     memoryUsageMB |-> 0, podRestarts |-> 0,
                     httpRequestsTotal |-> 0]]

\* getHealthSnapshot() has not ended.
NoneReturned ==
    [state |-> "pending", demoApp |-> NothingProbed.demoApp,
     database |-> [healthy |-> FALSE],
     prometheus |-> NothingProbed.prometheus, metrics |-> NothingProbed.metrics]

----------------------------------------------------------------------------
(* Incident store *)

NoReport == [set |-> FALSE, rootCauseAnalysis |-> "", actionsCount |-> 0,
             sharesTimeline |-> FALSE]

NewIncident(failureType, severity) ==
    [status |-> "detected", failureType |-> failureType, severity |-> severity,
     rootCause |-> "", attemptedActions |-> <<>>, timeline |-> <<>>,
     resolvedAt |-> FALSE, report |-> NoReport]

\* createIncident(), up to the emit: the record is stored under a fresh id.
createIncident(incs, failureType, severity) ==
    Append(incs, NewIncident(failureType, severity))

\* updateStatus() stamping the resolution time on every transition.
updateStatusStamping(incs, id, status) ==
    IF id \notin DOMAIN incs THEN incs
    ELSE [incs EXCEPT ![id].status = status, ![id].resolvedAt = TRUE]

\* updateStatus(), up to the emit.
updateStatus(incs, id, status) ==
    IF id \notin DOMAIN incs THEN incs
    ELSE [incs EXCEPT ![id].status = status,
                      ![id].resolvedAt = IF status = "resolved" THEN TRUE ELSE @]

\* addRecoveryAttempt(), up to the emit.
pushAttempt(incs, id, attempt) ==
    IF id \notin DOMAIN incs THEN incs
    ELSE [incs EXCEPT ![id].attemptedActions = Append(@, attempt)]

setRootCause(incs, id, rootCause) ==
    IF id \notin DOMAIN incs THEN incs
    ELSE [incs EXCEPT ![id].rootCause = rootCause]

\* setReport(), up to the emit.
setReport(incs, id, report) ==
    IF id \notin DOMAIN incs THEN incs
    ELSE [incs EXCEPT ![id].report = report]

addTimelineKeepingNewest(incs, id, event, detail) ==
    IF id \notin DOMAIN incs THEN incs
    ELSE [incs EXCEPT ![id].timeline = <<<<event, detail>>>>]

addTimeline(incs, id, event, detail) ==
    IF id \notin DOMAIN incs THEN incs
    ELSE [incs EXCEPT ![id].timeline = Append(@, <<event, detail>>)]

IsActiveStatus(status) == status /= "resolved" /\ status /= "failed"

\* getActiveIncident() returns an incident.
HasActiveIncident(incs) ==
    \E i \in DOMAIN incs : IsActiveStatus(incs[i].status)

----------------------------------------------------------------------------
(* The monitoringLoop() invocations in flight *)

Undefined == "undefined"

\* The data object a stage body returns (the fields the orchestrator reads).
NoData == [fixStrategy |-> Undefined, success |-> Undefined,
           decision |-> Undefined, reason |-> Undefined,
           readyForTraffic |-> Undefined, trafficStatus |-> Undefined]

\* AgentResult
NoResult == [agent |-> 0, success |-> FALSE, data |-> NoData]

IdlePoll ==
    [pc |-> "idle", snapshot |-> NoSnapshot, anomaly |-> NoAnomaly,
     incidentId |-> 0, agent |-> 0, data |-> NoData, result |-> NoResult,
     fixStrategy |-> Undefined, healingSuccess |-> Undefined,
     decision |-> Undefined, readyForTraffic |-> Undefined,
     success |-> FALSE, recovered |-> FALSE, containerRestarted |-> FALSE,
     i |-> 0]

\* JavaScript truthiness of a value that is true, false or undefined.
Truthy(v) == v = "true"
Bool(b) == IF b THEN "true" ELSE "false"

\* What one runPipeline() call did: the stages entered, the results handed
\* back to it, the statuses given to its incident, the setReport() calls,
\* and how it ended.
NewRun == [started |-> <<>>, results |-> <<>>, statuses |-> <<"detected">>,
           reports |-> 0, outcome |-> "running"]

Last2(log) == IF Len(log) <= 2 THEN log ELSE SubSeq(log, Len(log) - 1, Len(log))

FreeSlot(p) == polls[p].pc = "idle" /\ \A q \in Slots : q < p => polls[q].pc /= "idle"

----------------------------------------------------------------------------
(* Orchestrator *)

EngineInit ==
    /\ running = FALSE
    /\ pollTimer = FALSE
    /\ pipelineRunning = FALSE
    /\ lastHealthSnapshot = NoSnapshot
    /\ consecutiveHealthy = 0
    /\ consecutiveUnhealthy = 0
    /\ polls = [p \in Slots |-> IdlePoll]
    /\ active = 0
    /\ incidents = <<>>
    /\ throwOn \in HandlerFaults
    /\ runs = <<>>
    /\ pollLog = <<>>

\* A new ResurrectorEventBus: no history, no subscriber.
BusInit ==
    /\ eventHistory = <<>>
    /\ handlers = <<>>
    /\ published = 0
    /\ clears = 0
    /\ stream \in Streams
    /\ notified = <<>>
    /\ raised = FALSE

\* No call of the classifier or of the decision body is under study.
CallsIdle ==
    /\ givenSnapshot = NoSnapshot
    /\ foundAnomaly = NoAnomaly
    /\ givenHealing = Undefined
    /\ givenAttempts = 0
    /\ madeDecision = Undefined

NoCall == [op |-> "none", id |-> 0]

\* No call has been made on the incident store from outside the pipeline.
StoreIdle ==
    /\ storeCalls = 0
    /\ lastCall = NoCall

\* No getHealthSnapshot() call is under study.
ProbesIdle ==
    /\ givenProbes = NoProbes
    /\ probed = NothingProbed
    /\ returnedSnapshot = NoneReturned

Init ==
    /\ EngineInit
    /\ BusInit /\ stream = 1
    /\ CallsIdle
    /\ StoreIdle
    /\ ProbesIdle

BeginPollUnguarded ==
    \E p \in Slots :
        /\ FreeSlot(p)
        /\ polls' = [polls EXCEPT ![p].pc = "await_snapshot"]

\* monitoringLoop(), up to the await of getHealthSnapshot().
BeginPoll ==
    IF pipelineRunning
        THEN UNCHANGED polls
        ELSE \E p \in Slots :
                /\ FreeSlot(p)
                /\ polls' = [polls EXCEPT ![p].pc = "await_snapshot"]

\* start()
Start ==
    /\ active = 0
    /\ IF running
          THEN UNCHANGED vars
          ELSE /\ running' = TRUE
               /\ IF EmitThrows("system:status")
                     THEN UNCHANGED <<pollTimer, polls>>
                     ELSE /\ pollTimer' = TRUE
                          /\ BeginPoll
               /\ UNCHANGED <<busVars, callVars, storeVars, probeVars>>
               /\ UNCHANGED <<pipelineRunning, lastHealthSnapshot,
                              consecutiveHealthy, consecutiveUnhealthy, active,
                              incidents, throwOn, runs, pollLog>>

StopLeavingTimer ==
    /\ active = 0
    /\ running' = FALSE
    /\ UNCHANGED <<busVars, callVars, storeVars, probeVars>>
    /\ UNCHANGED <<pollTimer, pipelineRunning, lastHealthSnapshot,
                   consecutiveHealthy, consecutiveUnhealthy, polls, active,
                   incidents, throwOn, runs, pollLog>>

\* stop()
Stop ==
    /\ active = 0
    /\ running' = FALSE
    /\ pollTimer' = FALSE
    /\ UNCHANGED <<busVars, callVars, storeVars, probeVars>>
    /\ UNCHANGED <<pipelineRunning, lastHealthSnapshot, consecutiveHealthy,
                   consecutiveUnhealthy, polls, active, incidents, throwOn,
                   runs, pollLog>>

\* The interval timer fires: monitoringLoop().
Tick ==
    /\ active = 0
    /\ pollTimer
    /\ BeginPoll
    /\ UNCHANGED <<busVars, callVars, storeVars, probeVars>>
    /\ UNCHANGED <<running, pollTimer, pipelineRunning, lastHealthSnapshot,
                   consecutiveHealthy, consecutiveUnhealthy, active, incidents,
                   throwOn, runs, pollLog>>

\* The poll leaves monitoringLoop() (it returns, or its catch logged an error).
EndPoll(p) ==
    /\ polls' = [polls EXCEPT ![p] = IdlePoll]
    /\ active' = 0

\* getHealthSnapshot() settles: the probes have completed or failed, the
\* snapshot is assembled and health:healthy / health:degraded is published.
SnapshotArrivesFrom(p, results) ==
    /\ active = 0
    /\ polls[p].pc = "await_snapshot"
    /\ Len(incidents) < MaxIncidents
    /\ consecutiveHealthy < MaxCount
    /\ consecutiveUnhealthy < MaxCount
    /\ \E demoApp \in results, metrics \in MetricsResults :
          LET type == IF demoApp.healthy THEN "health:healthy" ELSE "health:degraded" IN
          /\ IF EmitThrows(type)
                THEN EndPoll(p)
                ELSE /\ polls' = [polls EXCEPT ![p].pc = "record",
                                      ![p].snapshot = HealthSnapshot(demoApp, metrics)]
                     /\ active' = p
    /\ UNCHANGED <<busVars, callVars, storeVars, probeVars>>
    /\ UNCHANGED <<running, pollTimer, pipelineRunning, lastHealthSnapshot,
                   consecutiveHealthy, consecutiveUnhealthy, incidents,
                   throwOn, runs, pollLog>>

SnapshotArrives(p) == SnapshotArrivesFrom(p, DemoAppResults)

\* monitoringLoop(): the snapshot is recorded and health:check published.
RecordSnapshot(p) ==
    /\ active = p
    /\ polls[p].pc = "record"
    /\ lastHealthSnapshot' = polls[p].snapshot
    /\ IF EmitThrows("health:check")
          THEN EndPoll(p)
          ELSE /\ polls' = [polls EXCEPT ![p].pc = "classify"]
               /\ UNCHANGED active
    /\ UNCHANGED <<busVars, callVars, storeVars, probeVars>>
    /\ UNCHANGED <<running, pollTimer, pipelineRunning, consecutiveHealthy,
                   consecutiveUnhealthy, incidents, throwOn, runs, pollLog>>

ClassifyWithoutReset(p) ==
    /\ active = p
    /\ polls[p].pc = "classify"
    /\ LET anomaly == detectAnomalies(polls[p].snapshot) IN
       IF anomaly.detected
          THEN /\ consecutiveUnhealthy' = consecutiveUnhealthy + 1
               /\ UNCHANGED consecutiveHealthy
               /\ pollLog' = Last2(Append(pollLog, "anomalous"))
               /\ polls' = [polls EXCEPT ![p].pc = "confirm", ![p].anomaly = anomaly]
               /\ UNCHANGED active
          ELSE /\ consecutiveHealthy' = consecutiveHealthy + 1
               /\ UNCHANGED consecutiveUnhealthy
               /\ pollLog' = Last2(Append(pollLog, "healthy"))
               /\ EndPoll(p)
    /\ UNCHANGED <<busVars, callVars, storeVars, probeVars>>
    /\ UNCHANGED <<running, pollTimer, pipelineRunning, lastHealthSnapshot,
                   incidents, throwOn, runs>>

\* monitoringLoop(): detectAnomalies() and the hysteresis counters.
Classify(p) ==
    /\ active = p
    /\ polls[p].pc = "classify"
    /\ LET anomaly == detectAnomalies(polls[p].snapshot) IN
       IF anomaly.detected
          THEN /\ consecutiveUnhealthy' = consecutiveUnhealthy + 1
               /\ consecutiveHealthy' = 0
               /\ pollLog' = Last2(Append(pollLog, "anomalous"))
               /\ polls' = [polls EXCEPT ![p].pc = "confirm", ![p].anomaly = anomaly]
               /\ UNCHANGED active
          ELSE /\ consecutiveHealthy' = consecutiveHealthy + 1
               /\ consecutiveUnhealthy' = 0
               /\ pollLog' = Last2(Append(pollLog, "healthy"))
               /\ EndPoll(p)
    /\ UNCHANGED <<busVars, callVars, storeVars, probeVars>>
    /\ UNCHANGED <<running, pollTimer, pipelineRunning, lastHealthSnapshot,
                   incidents, throwOn, runs>>

ShouldOpenIncidentUnguarded(unhealthy, guard, incs) ==
    unhealthy >= UnhealthyThreshold

ShouldOpenIncidentIgnoringActive(unhealthy, guard, incs) ==
    unhealthy >= UnhealthyThreshold /\ ~guard

ShouldOpenIncidentAtOnce(unhealthy, guard, incs) ==
    unhealthy >= 1 /\ ~guard /\ ~HasActiveIncident(incs)

\* monitoringLoop(): the anomaly is confirmed and no incident is active.
ShouldOpenIncident(unhealthy, guard, incs) ==
    unhealthy >= UnhealthyThreshold /\ ~guard /\ ~HasActiveIncident(incs)

Confirm(p) ==
    /\ active = p
    /\ polls[p].pc = "confirm"
    /\ IF ShouldOpenIncident(consecutiveUnhealthy, pipelineRunning, incidents)
          THEN /\ polls' = [polls EXCEPT ![p].pc = "anomaly_emit"]
               /\ UNCHANGED active
          ELSE EndPoll(p)
    /\ UNCHANGED <<busVars, callVars, storeVars, probeVars>>
    /\ UNCHANGED <<running, pollTimer, pipelineRunning, lastHealthSnapshot,
                   consecutiveHealthy, consecutiveUnhealthy, incidents,
                   throwOn, runs, pollLog>>

\* monitoringLoop(): anomaly:detected is published.
AnnounceAnomaly(p) ==
    /\ active = p
    /\ polls[p].pc = "anomaly_emit"
    /\ IF EmitThrows("anomaly:detected")
          THEN EndPoll(p)
          ELSE /\ polls' = [polls EXCEPT ![p].pc = "run_pipeline"]
               /\ UNCHANGED active
    /\ UNCHANGED <<busVars, callVars, storeVars, probeVars>>
    /\ UNCHANGED <<running, pollTimer, pipelineRunning, lastHealthSnapshot,
                   consecutiveHealthy, consecutiveUnhealthy, incidents,
                   throwOn, runs, pollLog>>

----------------------------------------------------------------------------
(* runPipeline() and the stage wrapper executeAgent() *)

AgentName(agent) ==
    CASE agent = 1 -> "Observability Agent"
      [] agent = 2 -> "Incident Analyzer"
      [] agent = 3 -> "Self-Healing Agent"
      [] agent = 4 -> "Recovery Decision Agent"
      [] agent = 5 -> "Disaster Recovery Agent"
      [] agent = 6 -> "Traffic Switch Agent"
      [] OTHER     -> "Incident Reporter"

\* Where the body of a stage begins.
BodyEntry(agent) ==
    CASE agent = 1 -> "obs_sleep"
      [] agent = 2 -> "an_status"
      [] agent = 3 -> "heal_status"
      [] agent = 4 -> "dec_sleep"
      [] agent = 5 -> "dr_status"
      [] agent = 6 -> "ts_switching"
      [] OTHER     -> "rep_sleep"

\* The places where a chain ends: the code awaits a timer or a fetch.
Suspended(pc) ==
    pc \in {"await_snapshot", "obs_sleep", "an_sleep", "heal_reset",
            "heal_verify", "dec_sleep", "dr_sleep1", "dr_reset", "dr_sleep2",
            "dr_check", "dr_check_sleep", "ts_check", "rep_sleep"}

\* The poll moves on to `next`; the chain goes on unless the code awaits there.
Goto(p, next) ==
    /\ polls' = [polls EXCEPT ![p] = next]
    /\ active' = IF Suspended(next.pc) \/ next.pc = "idle" THEN 0 ELSE p

Awake(p, pc) == polls[p].pc = pc /\ active = p
Asleep(p, pc) == polls[p].pc = pc /\ active = 0

OrchestratorUnchanged ==
    /\ UNCHANGED <<busVars, callVars, storeVars, probeVars>>
    /\ UNCHANGED <<running, pollTimer, pipelineRunning, lastHealthSnapshot,
                   consecutiveHealthy, consecutiveUnhealthy, throwOn, pollLog>>

\* runPipeline(): the guard is set and the incident created.
EnterPipeline(p) ==
    /\ Awake(p, "run_pipeline")
    /\ pipelineRunning' = TRUE
    /\ LET id == Len(incidents) + 1
           stored == createIncident(incidents, polls[p].anomaly.failureType,
                                    polls[p].anomaly.severity)
       IN /\ runs' = Append(runs, NewRun)
          /\ IF EmitThrows("incident:created")
                THEN /\ incidents' = stored
                     /\ Goto(p, [polls[p] EXCEPT !.pc = "pipeline_catch",
                                                 !.incidentId = id])
                ELSE /\ incidents' = addTimeline(stored, id, "Incident detected", "")
                     /\ Goto(p, [polls[p] EXCEPT !.pc = "agent_start",
                                                 !.incidentId = id, !.agent = 1])
    /\ UNCHANGED <<busVars, callVars, storeVars, probeVars>>
    /\ UNCHANGED <<running, pollTimer, lastHealthSnapshot, consecutiveHealthy,
                   consecutiveUnhealthy, throwOn, pollLog>>

\* executeAgent(): agent:start and the "started" timeline entry.
AgentStart(p) ==
    /\ Awake(p, "agent_start")
    /\ LET me == polls[p]
           id == me.incidentId
       IN /\ runs' = [runs EXCEPT ![id].started = Append(@, me.agent)]
          /\ IF EmitThrows("agent:start")
                THEN /\ UNCHANGED incidents
                     /\ Goto(p, [me EXCEPT !.pc = "pipeline_catch"])
                ELSE /\ incidents' = addTimeline(incidents, id, "started", AgentName(me.agent))
                     /\ Goto(p, [me EXCEPT
                                   !.pc = IF me.agent = 7 /\ id \notin DOMAIN incidents
                                             THEN "agent_catch"
                                             ELSE BodyEntry(me.agent),
                                   !.data = NoData, !.success = FALSE,
                                   !.recovered = FALSE,
                                   !.containerRestarted = FALSE, !.i = 0])
    /\ OrchestratorUnchanged

\* executeAgent(): the body returned; agent:complete and the timeline entry.
AgentComplete(p) ==
    /\ Awake(p, "agent_complete")
    /\ LET me == polls[p]
           id == me.incidentId
       IN /\ UNCHANGED runs
          /\ IF EmitThrows("agent:complete")
                THEN /\ UNCHANGED incidents
                     /\ Goto(p, [me EXCEPT !.pc = "agent_catch"])
                ELSE /\ incidents' = addTimeline(incidents, id, "completed", AgentName(me.agent))
                     /\ Goto(p, [me EXCEPT !.pc = "after_stage",
                                   !.result = [agent |-> me.agent, success |-> TRUE,
                                               data |-> me.data]])
    /\ OrchestratorUnchanged

\* executeAgent(): the catch; agent:error and the "failed" timeline entry.
AgentCatch(p) ==
    /\ Awake(p, "agent_catch")
    /\ LET me == polls[p]
           id == me.incidentId
       IN /\ UNCHANGED runs
          /\ IF EmitThrows("agent:error")
                THEN /\ UNCHANGED incidents
                     /\ Goto(p, [me EXCEPT !.pc = "pipeline_catch"])
                ELSE /\ incidents' = addTimeline(incidents, id, "failed", AgentName(me.agent))
                     /\ Goto(p, [me EXCEPT !.pc = "after_stage",
                                   !.result = [agent |-> me.agent, success |-> FALSE,
                                               data |-> NoData]])
    /\ OrchestratorUnchanged

AfterDecisionNoEscalatedStatus(decision) ==
    IF decision = "resolved" THEN [pc |-> "agent_start", agent |-> 7]
    ELSE IF decision = "escalate_dr" THEN [pc |-> "agent_start", agent |-> 5]
    ELSE [pc |-> "pipeline_done", agent |-> 4]

\* runPipeline(): where it goes once the Recovery Decision stage has returned.
AfterDecision(decision) ==
    IF decision = "resolved" THEN [pc |-> "agent_start", agent |-> 7]
    ELSE IF decision = "escalate_dr" THEN [pc |-> "escalate", agent |-> 4]
    ELSE [pc |-> "pipeline_done", agent |-> 4]

\* runPipeline(): a stage has returned its result; the next stage is chosen.
AfterStage(p) ==
    /\ Awake(p, "after_stage")
    /\ LET me == polls[p]
           res == me.result
           next == [me EXCEPT !.result = NoResult, !.data = NoData]
           stage(k) == [next EXCEPT !.pc = "agent_start", !.agent = k]
       IN /\ runs' = [runs EXCEPT ![me.incidentId].results =
                          Append(@, [agent |-> res.agent, success |-> res.success])]
          /\ CASE res.agent = 1 -> Goto(p, stage(2))
               [] res.agent = 2 ->
                    Goto(p, [stage(3) EXCEPT !.fixStrategy =
                                IF res.data.fixStrategy = Undefined
                                   THEN "restart_service" ELSE res.data.fixStrategy])
               [] res.agent = 3 ->
                    Goto(p, [stage(4) EXCEPT !.healingSuccess = res.data.success])
               [] res.agent = 4 ->
                    LET to == AfterDecision(res.data.decision) IN
                    Goto(p, [next EXCEPT !.decision = res.data.decision,
                                         !.pc = to.pc, !.agent = to.agent])
               [] res.agent = 5 ->
                    Goto(p, [stage(6) EXCEPT !.readyForTraffic = res.data.readyForTraffic])
               [] res.agent = 6 -> Goto(p, stage(7))
               [] OTHER -> Goto(p, [next EXCEPT !.pc = "pipeline_done"])
    /\ UNCHANGED incidents
    /\ OrchestratorUnchanged

\* runPipeline(): the incident is marked escalated before Disaster Recovery.
Escalate(p) ==
    /\ Awake(p, "escalate")
    /\ LET me == polls[p]
           id == me.incidentId
       IN /\ incidents' = updateStatus(incidents, id, "escalated")
          /\ runs' = [runs EXCEPT ![id].statuses = Append(@, "escalated")]
          /\ IF EmitThrows("incident:update")
                THEN Goto(p, [me EXCEPT !.pc = "pipeline_catch"])
                ELSE Goto(p, [me EXCEPT !.pc = "agent_start", !.agent = 5])
    /\ OrchestratorUnchanged

\* runPipeline(): the run ends normally; counter reset, then the finally block.
PipelineDone(p) ==
    /\ Awake(p, "pipeline_done")
    /\ consecutiveUnhealthy' = 0
    /\ pipelineRunning' = FALSE
    /\ pollLog' = Last2(Append(pollLog, "completed"))
    /\ runs' = [runs EXCEPT ![polls[p].incidentId].outcome = "completed"]
    /\ EndPoll(p)
    /\ UNCHANGED <<busVars, callVars, storeVars, probeVars>>
    /\ UNCHANGED <<running, pollTimer, lastHealthSnapshot, consecutiveHealthy,
                   incidents, throwOn>>

PipelineCatchKeepingGuard(p) ==
    /\ Awake(p, "pipeline_catch")
    /\ runs' = [runs EXCEPT ![polls[p].incidentId].outcome = "error"]
    /\ EndPoll(p)
    /\ UNCHANGED <<busVars, callVars, storeVars, probeVars>>
    /\ UNCHANGED <<running, pollTimer, pipelineRunning, lastHealthSnapshot,
                   consecutiveHealthy, consecutiveUnhealthy, incidents,
                   throwOn, pollLog>>

\* runPipeline(): an error reached the outer catch; then the finally block.
PipelineCatch(p) ==
    /\ Awake(p, "pipeline_catch")
    /\ pipelineRunning' = FALSE
    /\ runs' = [runs EXCEPT ![polls[p].incidentId].outcome = "error"]
    /\ EndPoll(p)
    /\ UNCHANGED <<busVars, callVars, storeVars, probeVars>>
    /\ UNCHANGED <<running, pollTimer, lastHealthSnapshot, consecutiveHealthy,
                   consecutiveUnhealthy, incidents, throwOn, pollLog>>

----------------------------------------------------------------------------
(* Stage bodies.  The answers of the monitored service are inputs. *)

\* POST /chaos/reset: acknowledged, refused (not 2xx), or the request fails.
ResetAnswers == {"ok", "refused", "error"}

\* GET /health: 200 and status healthy, 503, or the request fails.
HealthAnswers == {"healthy", "unhealthy", "error"}

\* A publication inside a stage body: a handler exception leaves the body
\* and is caught by the wrapper.
BodyEmit(p, type, next, rs) ==
    /\ runs' = rs
    /\ IF EmitThrows(type)
          THEN Goto(p, [polls[p] EXCEPT !.pc = "agent_catch"])
          ELSE Goto(p, next)

\* updateStatus() called from a stage body.
BodyStatus(p, status, next) ==
    /\ incidents' = updateStatus(incidents, polls[p].incidentId, status)
    /\ BodyEmit(p, "incident:update", next,
                [runs EXCEPT ![polls[p].incidentId].statuses = Append(@, status)])

\* Agent 1 -- runObservabilityAgent(): sleep(800), then the finding.
ObservabilityFinding(p) ==
    /\ Asleep(p, "obs_sleep")
    /\ Goto(p, [polls[p] EXCEPT !.pc = "agent_complete"])
    /\ UNCHANGED <<incidents, runs>>
    /\ OrchestratorUnchanged

\* Agent 2 -- runAnalyzerAgent(): the incident is marked analyzing; sleep(1200).
AnalyzerStatus(p) ==
    /\ Awake(p, "an_status")
    /\ BodyStatus(p, "analyzing", [polls[p] EXCEPT !.pc = "an_sleep"])
    /\ OrchestratorUnchanged

\* The analyzer's table: failure type -> fix strategy.
FixStrategyFor(failureType) ==
    CASE failureType = "service_down" -> "restart_service"
      [] failureType = "latency_spike" -> "reset_latency"
      [] failureType = "memory_leak" -> "restart_and_clear"
      [] failureType = "dependency_failure" -> "check_dependencies"
      [] OTHER -> "restart_service"

\* The analyzer's table: failure type -> root cause category.
RootCauseFor(failureType) ==
    CASE failureType = "service_down" -> "Application Failure"
      [] failureType = "latency_spike" -> "Performance Degradation"
      [] failureType = "memory_leak" -> "Resource Exhaustion"
      [] failureType = "dependency_failure" -> "Dependency Failure"
      [] OTHER -> "Unknown"

\* runAnalyzerAgent(): the lookup and setRootCause().
AnalyzerVerdict(p) ==
    /\ Asleep(p, "an_sleep")
    /\ LET me == polls[p]
           failureType == me.anomaly.failureType
       IN /\ incidents' = setRootCause(incidents, me.incidentId, RootCauseFor(failureType))
          /\ Goto(p, [me EXCEPT !.pc = "agent_complete",
                                !.data.fixStrategy = FixStrategyFor(failureType)])
    /\ UNCHANGED runs
    /\ OrchestratorUnchanged

\* Agent 3 -- runHealingAgent(): the incident is marked healing.
HealingStatus(p) ==
    /\ Awake(p, "heal_status")
    /\ BodyStatus(p, "healing", [polls[p] EXCEPT !.pc = "heal_switch"])
    /\ OrchestratorUnchanged

KnownStrategies ==
    {"restart_service", "reset_latency", "restart_and_clear", "check_dependencies"}

\* A publication inside the healing body's own try block: an exception is
\* caught there and the body goes on to record the attempt.
HealingEmit(p, next) ==
    /\ UNCHANGED runs
    /\ IF EmitThrows("recovery:action")
          THEN Goto(p, [polls[p] EXCEPT !.pc = "heal_attempt"])
          ELSE Goto(p, [polls[p] EXCEPT !.pc = next])

\* runHealingAgent(): the switch on the strategy; a known strategy announces
\* the reset, then sleep(500) and POST /chaos/reset.
HealingSwitch(p) ==
    /\ Awake(p, "heal_switch")
    /\ IF polls[p].fixStrategy \in KnownStrategies
          THEN HealingEmit(p, "heal_reset")
          ELSE /\ UNCHANGED runs
               /\ Goto(p, [polls[p] EXCEPT !.pc = "heal_attempt"])
    /\ UNCHANGED incidents
    /\ OrchestratorUnchanged

\* HealingReset() taking the acknowledgement for the recovery.
HealingResetTrusted(p) ==
    /\ Asleep(p, "heal_reset")
    /\ \E answer \in ResetAnswers :
          /\ UNCHANGED runs
          /\ Goto(p, [polls[p] EXCEPT !.pc = "heal_attempt",
                                      !.success = (answer = "ok")])
    /\ UNCHANGED incidents
    /\ OrchestratorUnchanged

\* runHealingAgent(): the reset request has returned; if acknowledged,
\* stabilisation is announced, then sleep(2000) and GET /health.
HealingReset(p) ==
    /\ Asleep(p, "heal_reset")
    /\ \E answer \in ResetAnswers :
          IF answer = "ok"
             THEN HealingEmit(p, "heal_verify")
             ELSE /\ UNCHANGED runs
                  /\ Goto(p, [polls[p] EXCEPT !.pc = "heal_attempt"])
    /\ UNCHANGED incidents
    /\ OrchestratorUnchanged

\* runHealingAgent(): the health check after the reset has returned.
HealingVerify(p) ==
    /\ Asleep(p, "heal_verify")
    /\ \E answer \in HealthAnswers :
          Goto(p, [polls[p] EXCEPT !.pc = "heal_attempt",
                                   !.success = (answer = "healthy")])
    /\ UNCHANGED <<incidents, runs>>
    /\ OrchestratorUnchanged

\* addRecoveryAttempt(): the push, recovery:action, the timeline entry.
RecordAttempt(p, action, success, next) ==
    LET me == polls[p]
        id == me.incidentId
        pushed == pushAttempt(incidents, id, [action |-> action, success |-> success])
    IN /\ UNCHANGED runs
       /\ IF EmitThrows("recovery:action")
             THEN /\ incidents' = pushed
                  /\ Goto(p, [me EXCEPT !.pc = "agent_catch"])
             ELSE /\ incidents' = addTimeline(pushed, id, "Recovery action", action)
                  /\ Goto(p, [me EXCEPT !.pc = next])

\* runHealingAgent(): the one RecoveryAttempt of the stage.
HealingAttempt(p) ==
    /\ Awake(p, "heal_attempt")
    /\ RecordAttempt(p, "restart_pod", polls[p].success, "heal_outcome")
    /\ OrchestratorUnchanged

\* runHealingAgent(): recovery:success or recovery:failed, and the result.
HealingOutcome(p) ==
    /\ Awake(p, "heal_outcome")
    /\ BodyEmit(p, IF polls[p].success THEN "recovery:success" ELSE "recovery:failed",
                [polls[p] EXCEPT !.pc = "agent_complete",
                                 !.data.success = Bool(polls[p].success)],
                runs)
    /\ UNCHANGED incidents
    /\ OrchestratorUnchanged

recoveryDecisionWithBudget(healingSuccess, attempts) ==
    IF Truthy(healingSuccess)
       THEN [decision |-> "resolved", reason |-> "healed"]
    ELSE IF attempts >= AttemptsNoted
       THEN [decision |-> "escalate_dr", reason |-> "failed after attempts"]
    ELSE [decision |-> "retry_healing", reason |-> "failed"]

\* The body of runRecoveryDecisionAgent(), after sleep(600).
recoveryDecision(healingSuccess, attempts) ==
    IF Truthy(healingSuccess)
       THEN [decision |-> "resolved", reason |-> "healed"]
    ELSE IF attempts >= AttemptsNoted
       THEN [decision |-> "escalate_dr", reason |-> "failed after attempts"]
    ELSE [decision |-> "escalate_dr", reason |-> "failed"]

\* Agent 4 -- runRecoveryDecisionAgent(): after sleep(600), the decision.
RecoveryDecision(p) ==
    /\ Asleep(p, "dec_sleep")
    /\ LET me == polls[p]
           attempts == IF me.incidentId \in DOMAIN incidents
                          THEN Len(incidents[me.incidentId].attemptedActions) ELSE 0
           made == recoveryDecision(me.healingSuccess, attempts)
       IN Goto(p, [me EXCEPT !.pc = "agent_complete",
                             !.data.decision = made.decision,
                             !.data.reason = made.reason])
    /\ UNCHANGED <<incidents, runs>>
    /\ OrchestratorUnchanged

\* Agent 5 -- runDisasterRecoveryAgent(): the incident is marked recovering.
RecoveryStatus(p) ==
    /\ Awake(p, "dr_status")
    /\ BodyStatus(p, "recovering", [polls[p] EXCEPT !.pc = "dr_started"])
    /\ OrchestratorUnchanged

\* runDisasterRecoveryAgent(): dr:started.
RecoveryStarted(p) ==
    /\ Awake(p, "dr_started")
    /\ BodyEmit(p, "dr:started", [polls[p] EXCEPT !.pc = "dr_backup"], runs)
    /\ UNCHANGED incidents
    /\ OrchestratorUnchanged

\* runDisasterRecoveryAgent(): step 1, the backup is identified; sleep(1000).
RecoveryBackup(p) ==
    /\ Awake(p, "dr_backup")
    /\ BodyEmit(p, "recovery:action", [polls[p] EXCEPT !.pc = "dr_sleep1"], runs)
    /\ UNCHANGED incidents
    /\ OrchestratorUnchanged

\* runDisasterRecoveryAgent(): step 2, the restart is announced and requested.
RecoveryRestart(p) ==
    /\ Asleep(p, "dr_sleep1")
    /\ BodyEmit(p, "recovery:action", [polls[p] EXCEPT !.pc = "dr_reset"], runs)
    /\ UNCHANGED incidents
    /\ OrchestratorUnchanged

\* runDisasterRecoveryAgent(): POST /chaos/reset has returned; sleep(2000).
RecoveryReset(p) ==
    /\ Asleep(p, "dr_reset")
    /\ \E answer \in ResetAnswers :
          Goto(p, [polls[p] EXCEPT !.pc = "dr_sleep2",
                                   !.containerRestarted = (answer = "ok")])
    /\ UNCHANGED <<incidents, runs>>
    /\ OrchestratorUnchanged

\* runDisasterRecoveryAgent(): step 3, validation is announced; first check.
RecoveryValidate(p) ==
    /\ Asleep(p, "dr_sleep2")
    /\ BodyEmit(p, "recovery:action",
                [polls[p] EXCEPT !.pc = "dr_check", !.recovered = FALSE, !.i = 0],
                runs)
    /\ UNCHANGED incidents
    /\ OrchestratorUnchanged

\* runDisasterRecoveryAgent(): GET /health of re-check i has returned.
RecoveryCheck(p) ==
    /\ Asleep(p, "dr_check")
    /\ \E answer \in HealthAnswers :
          IF answer = "healthy"
             THEN Goto(p, [polls[p] EXCEPT !.pc = "dr_attempt", !.recovered = TRUE])
             ELSE Goto(p, [polls[p] EXCEPT !.pc = "dr_check_sleep"])
    /\ UNCHANGED <<incidents, runs>>
    /\ OrchestratorUnchanged

RecoveryRetryUnbounded(p) ==
    /\ Asleep(p, "dr_check_sleep")
    /\ Goto(p, [polls[p] EXCEPT !.pc = "dr_check"])
    /\ UNCHANGED <<incidents, runs>>
    /\ OrchestratorUnchanged

\* runDisasterRecoveryAgent(): sleep(1000) of the loop is over; i++.
RecoveryRetry(p) ==
    /\ Asleep(p, "dr_check_sleep")
    /\ LET me == polls[p] IN
       IF me.i + 1 < DRHealthChecks
          THEN Goto(p, [me EXCEPT !.pc = "dr_check", !.i = me.i + 1])
          ELSE Goto(p, [me EXCEPT !.pc = "dr_attempt", !.i = me.i + 1])
    /\ UNCHANGED <<incidents, runs>>
    /\ OrchestratorUnchanged

\* runDisasterRecoveryAgent(): the one RecoveryAttempt of the stage.
RecoveryAttempt(p) ==
    /\ Awake(p, "dr_attempt")
    /\ RecordAttempt(p, "restore_database", polls[p].recovered, "dr_complete")
    /\ OrchestratorUnchanged

\* runDisasterRecoveryAgent(): dr:complete, and the result.
RecoveryComplete(p) ==
    /\ Awake(p, "dr_complete")
    /\ BodyEmit(p, "dr:complete",
                [polls[p] EXCEPT !.pc = "agent_complete",
                                 !.data.readyForTraffic = Bool(polls[p].recovered)],
                runs)
    /\ UNCHANGED incidents
    /\ OrchestratorUnchanged

\* Agent 6 -- runTrafficSwitchAgent(): traffic:switching; not ready -> failed.
TrafficSwitching(p) ==
    /\ Awake(p, "ts_switching")
    /\ BodyEmit(p, "traffic:switching",
                IF Truthy(polls[p].readyForTraffic)
                   THEN [polls[p] EXCEPT !.pc = "ts_verify"]
                   ELSE [polls[p] EXCEPT !.pc = "agent_complete",
                                         !.data.trafficStatus = "failed"],
                runs)
    /\ UNCHANGED incidents
    /\ OrchestratorUnchanged

\* runTrafficSwitchAgent(): the stability check is announced; sleep(1500).
TrafficVerify(p) ==
    /\ Awake(p, "ts_verify")
    /\ BodyEmit(p, "recovery:action", [polls[p] EXCEPT !.pc = "ts_check"], runs)
    /\ UNCHANGED incidents
    /\ OrchestratorUnchanged

\* runTrafficSwitchAgent(): the final GET /health has returned.
TrafficCheck(p) ==
    /\ Asleep(p, "ts_check")
    /\ \E answer \in HealthAnswers :
          IF answer = "healthy"
             THEN Goto(p, [polls[p] EXCEPT !.pc = "ts_complete"])
             ELSE Goto(p, [polls[p] EXCEPT !.pc = "agent_complete",
                                           !.data.trafficStatus = "rolled_back"])
    /\ UNCHANGED <<incidents, runs>>
    /\ OrchestratorUnchanged

\* runTrafficSwitchAgent(): traffic:complete, and the result.
TrafficComplete(p) ==
    /\ Awake(p, "ts_complete")
    /\ BodyEmit(p, "traffic:complete",
                [polls[p] EXCEPT !.pc = "agent_complete",
                                 !.data.trafficStatus = "complete"],
                runs)
    /\ UNCHANGED incidents
    /\ OrchestratorUnchanged

\* Agent 7 -- runReporterAgent(): after sleep(1000) the report is compiled
\* (its timeline is the incident's own array) and stored with setReport().
ReporterReport(p) ==
    /\ Asleep(p, "rep_sleep")
    /\ LET me == polls[p]
           id == me.incidentId
           report == [set |-> TRUE,
                      rootCauseAnalysis |-> incidents[id].rootCause,
                      actionsCount |-> Len(incidents[id].attemptedActions),
                      sharesTimeline |-> TRUE]
       IN /\ incidents' = setReport(incidents, id, report)
          /\ BodyEmit(p, "report:generated", [me EXCEPT !.pc = "rep_resolve"],
                      [runs EXCEPT ![id].reports = @ + 1])
    /\ OrchestratorUnchanged

\* runReporterAgent(): the incident is marked resolved.
ReporterResolve(p) ==
    /\ Awake(p, "rep_resolve")
    /\ BodyStatus(p, "resolved", [polls[p] EXCEPT !.pc = "rep_resolved"])
    /\ OrchestratorUnchanged

\* runReporterAgent(): incident:resolved, and the result.
ReporterResolved(p) ==
    /\ Awake(p, "rep_resolved")
    /\ BodyEmit(p, "incident:resolved", [polls[p] EXCEPT !.pc = "agent_complete"], runs)
    /\ UNCHANGED incidents
    /\ OrchestratorUnchanged

----------------------------------------------------------------------------
(* The program *)

PollStep(p) ==
    \/ SnapshotArrives(p)
    \/ RecordSnapshot(p)
    \/ Classify(p)
    \/ Confirm(p)
    \/ AnnounceAnomaly(p)

PipelineStep(p) ==
    \/ EnterPipeline(p)
    \/ AgentStart(p)
    \/ AgentComplete(p)
    \/ AgentCatch(p)
    \/ AfterStage(p)
    \/ Escalate(p)
    \/ PipelineDone(p)
    \/ PipelineCatch(p)

StageStep(p) ==
    \/ ObservabilityFinding(p)
    \/ AnalyzerStatus(p)
    \/ AnalyzerVerdict(p)
    \/ HealingStatus(p)
    \/ HealingSwitch(p)
    \/ HealingReset(p)
    \/ HealingVerify(p)
    \/ HealingAttempt(p)
    \/ HealingOutcome(p)
    \/ RecoveryDecision(p)
    \/ RecoveryStatus(p)
    \/ RecoveryStarted(p)
    \/ RecoveryBackup(p)
    \/ RecoveryRestart(p)
    \/ RecoveryReset(p)
    \/ RecoveryValidate(p)
    \/ RecoveryCheck(p)
    \/ RecoveryRetry(p)
    \/ RecoveryAttempt(p)
    \/ RecoveryComplete(p)
    \/ TrafficSwitching(p)
    \/ TrafficVerify(p)
    \/ TrafficCheck(p)
    \/ TrafficComplete(p)
    \/ ReporterReport(p)
    \/ ReporterResolve(p)
    \/ ReporterResolved(p)

Next ==
    \/ Start
    \/ Stop
    \/ Tick
    \/ \E p \in Slots : PollStep(p) \/ PipelineStep(p) \/ StageStep(p)

Spec == Init /\ [][Next]_vars

\* The steps of monitoringLoop() outside runPipeline(), and those of
\* runPipeline() and its stages.
\* checkDemoAppHealth(): the service answers, but neither with a 2xx and
\* status healthy nor with 503: a 200 with another status, or a 500.
DegradedResults ==
    { [healthy |-> FALSE, statusCode |-> 200, responseTimeMs |-> 50],
      [healthy |-> FALSE, statusCode |-> 500, responseTimeMs |-> 50] }

DegradedSnapshotArrives(p) == SnapshotArrivesFrom(p, DegradedResults)

\* The program monitoring a service that also gives such answers.
DegradedNext ==
    \/ Next
    \/ \E p \in Slots : DegradedSnapshotArrives(p)

DegradedSpec == Init /\ [][DegradedNext]_vars

PollProgress == \E p \in Slots : PollStep(p)
PipelineProgress == \E p \in Slots : PipelineStep(p) \/ StageStep(p)

\* The event loop runs every callback that is ready: synchronous code goes on,
\* a timer that has expired and a request that has returned or failed resume
\* the code awaiting them, however often other callbacks run in between.
FairSpec == Spec /\ WF_vars(PollProgress) /\ SF_vars(PipelineProgress)

----------------------------------------------------------------------------
(* runHealingAgent() called on its own, with any strategy token *)

\* The tokens of the analyzer's table and one that has no handler.
StrategyTokens == KnownStrategies \cup {"rebuild_cluster"}

\* runHealingAgent(incidentId, fixStrategy) has just been called for the one
\* incident of the store.
HealingCallInit ==
    /\ running = FALSE
    /\ pollTimer = FALSE
    /\ pipelineRunning = FALSE
    /\ lastHealthSnapshot = NoSnapshot
    /\ consecutiveHealthy = 0
    /\ consecutiveUnhealthy = 0
    /\ \E token \in StrategyTokens :
          polls = [p \in Slots |->
                      IF p = 1 THEN [IdlePoll EXCEPT !.pc = "agent_start",
                                                     !.agent = 3,
                                                     !.incidentId = 1,
                                                     !.fixStrategy = token]
                               ELSE IdlePoll]
    /\ active = 1
    /\ incidents = addTimeline(createIncident(<<>>, "service_down", "critical"),
                               1, "Incident detected", "")
    /\ throwOn \in HandlerFaults
    /\ runs = <<NewRun>>
    /\ pollLog = <<>>
    /\ BusInit /\ stream = 1
    /\ CallsIdle
    /\ StoreIdle
    /\ ProbesIdle

HealingCallNext ==
    \E p \in Slots :
        \/ AgentStart(p)
        \/ HealingStatus(p)
        \/ HealingSwitch(p)
        \/ HealingReset(p)
        \/ HealingVerify(p)
        \/ HealingAttempt(p)
        \/ HealingOutcome(p)
        \/ AgentComplete(p)
        \/ AgentCatch(p)

HealingCallSpec == HealingCallInit /\ [][HealingCallNext]_vars

----------------------------------------------------------------------------
(* The event bus on its own: subscriptions, publishes and clears *)

\* onEvent(handler): the handler either returns or throws when called.
OnEvent ==
    /\ Len(handlers) < MaxHandlers
    /\ \E behaviour \in {"returns", "throws"} :
          handlers' = Append(handlers, behaviour)
    /\ UNCHANGED <<eventHistory, published, clears, stream, notified, raised>>
    /\ UNCHANGED <<engineVars, callVars, storeVars, probeVars>>

\* emit(type, data) of the next event of the stream.
Emit ==
    /\ published < MaxPublishes
    /\ LET event == BusEvent(TypeOf(stream, published + 1), clears, published + 1)
           done == emit(eventHistory, handlers, event)
       IN /\ eventHistory' = done.history
          /\ notified' = done.notified
          /\ raised' = done.raised
    /\ published' = published + 1
    /\ UNCHANGED <<handlers, clears, stream>>
    /\ UNCHANGED <<engineVars, callVars, storeVars, probeVars>>

\* clearHistory()
ClearHistory ==
    /\ clears < MaxClears
    /\ eventHistory' = <<>>
    /\ published' = 0
    /\ clears' = clears + 1
    /\ UNCHANGED <<handlers, stream, notified, raised>>
    /\ UNCHANGED <<engineVars, callVars, storeVars, probeVars>>

BusSpecInit ==
    /\ EngineInit /\ throwOn = {}
    /\ BusInit
    /\ CallsIdle
    /\ StoreIdle
    /\ ProbesIdle

BusNext ==
    \/ OnEvent
    \/ Emit
    \/ ClearHistory

BusSpec == BusSpecInit /\ [][BusNext]_vars

----------------------------------------------------------------------------
(* The classifier and the decision body on their own *)

\* Snapshots around every threshold of the classifier.
Snapshots ==
    [healthy : BOOLEAN,
     statusCode : {0, 200, 503},
     responseTimeMs : {50, LatencyLimitMs, LatencyLimitMs + 1},
     errorRate : {0, ErrorRateLimit, ErrorRateLimit + 1},
     memoryUsageMB : {0, MemoryLimitMB, MemoryLimitMB + 1}]

Pending == [detected |-> FALSE, failureType |-> "pending", severity |-> "pending"]

\* detectAnomalies(snapshot) is called.
DetectAnomalies ==
    /\ foundAnomaly = Pending
    /\ foundAnomaly' = detectAnomalies(givenSnapshot)
    /\ UNCHANGED <<givenSnapshot, givenHealing, givenAttempts, madeDecision>>
    /\ UNCHANGED <<engineVars, busVars, storeVars, probeVars>>

\* The body of runRecoveryDecisionAgent() runs.
Decide ==
    /\ madeDecision = Undefined
    /\ madeDecision' = recoveryDecision(givenHealing, givenAttempts).decision
    /\ UNCHANGED <<givenSnapshot, foundAnomaly, givenHealing, givenAttempts>>
    /\ UNCHANGED <<engineVars, busVars, storeVars, probeVars>>

CallSpecInit ==
    /\ EngineInit /\ throwOn = {}
    /\ BusInit /\ stream = 1
    /\ givenSnapshot \in Snapshots
    /\ foundAnomaly = Pending
    /\ givenHealing \in {"true", "false", Undefined}
    /\ givenAttempts \in 0..MaxAttempts
    /\ madeDecision = Undefined
    /\ StoreIdle
    /\ ProbesIdle

CallNext ==
    \/ DetectAnomalies
    \/ Decide

CallSpec == CallSpecInit /\ [][CallNext]_vars

----------------------------------------------------------------------------
(* The incident store on its own: calls with known and unknown ids *)

\* The ids the callers pass: those of the stored incidents and one more.
StoreIds == 1..(MaxIncidents + 1)

\* eventBus.emit() made by a store operation.
StoreEmit(type) ==
    /\ eventHistory' = pushHistory(eventHistory, BusEvent(type, 0, storeCalls + 1))
    /\ raised' = EmitThrows(type)

\* A store operation that has found no incident under the id: it returns.
StoreReturn == UNCHANGED <<incidents, eventHistory>> /\ raised' = FALSE

\* What a call on the store leaves alone.
StoreCalled(op, id) ==
    /\ storeCalls' = storeCalls + 1
    /\ lastCall' = [op |-> op, id |-> id]
    /\ UNCHANGED <<running, pollTimer, pipelineRunning, lastHealthSnapshot,
                   consecutiveHealthy, consecutiveUnhealthy, polls, active,
                   throwOn, runs, pollLog>>
    /\ UNCHANGED <<handlers, published, clears, stream, notified>>
    /\ UNCHANGED <<callVars, probeVars>>

\* createIncident(failureType, severity, affectedServices)
CreateIncident ==
    /\ storeCalls < MaxStoreCalls
    /\ Len(incidents) < MaxIncidents
    /\ LET id == Len(incidents) + 1
           stored == createIncident(incidents, "service_down", "critical")
       IN /\ incidents' = IF EmitThrows("incident:created") THEN stored
                          ELSE addTimeline(stored, id, "Incident detected", "")
          /\ StoreEmit("incident:created")
          /\ StoreCalled("createIncident", id)

UpdateStatusUnchecked ==
    /\ storeCalls < MaxStoreCalls
    /\ \E id \in StoreIds, status \in {"analyzing", "resolved"} :
          /\ incidents' = updateStatus(incidents, id, status)
          /\ StoreEmit("incident:update")
          /\ StoreCalled("updateStatus", id)

\* updateStatus(incidentId, status)
UpdateStatus ==
    /\ storeCalls < MaxStoreCalls
    /\ \E id \in StoreIds, status \in {"analyzing", "resolved"} :
          /\ IF id \notin DOMAIN incidents
                THEN StoreReturn
                ELSE /\ incidents' = updateStatus(incidents, id, status)
                     /\ StoreEmit("incident:update")
          /\ StoreCalled("updateStatus", id)

\* addRecoveryAttempt(incidentId, attempt)
AddRecoveryAttempt ==
    /\ storeCalls < MaxStoreCalls
    /\ \E id \in StoreIds :
          /\ IF id \notin DOMAIN incidents
                THEN StoreReturn
                ELSE LET pushed == pushAttempt(incidents, id,
                                      [action |-> "restart_pod", success |-> FALSE])
                     IN /\ incidents' =
                              IF EmitThrows("recovery:action") THEN pushed
                              ELSE addTimeline(pushed, id, "Recovery action", "restart_pod")
                        /\ StoreEmit("recovery:action")
          /\ StoreCalled("addRecoveryAttempt", id)

\* setRootCause(incidentId, rootCause)
SetRootCause ==
    /\ storeCalls < MaxStoreCalls
    /\ \E id \in StoreIds :
          /\ IF id \notin DOMAIN incidents
                THEN StoreReturn
                ELSE /\ incidents' = setRootCause(incidents, id, "Application Failure")
                     /\ UNCHANGED eventHistory
                     /\ raised' = FALSE
          /\ StoreCalled("setRootCause", id)

\* setReport(incidentId, report)
SetReport ==
    /\ storeCalls < MaxStoreCalls
    /\ \E id \in StoreIds :
          /\ IF id \notin DOMAIN incidents
                THEN StoreReturn
                ELSE /\ incidents' = setReport(incidents, id,
                                        [set |-> TRUE, rootCauseAnalysis |-> "",
                                         actionsCount |-> 0, sharesTimeline |-> FALSE])
                     /\ StoreEmit("report:generated")
          /\ StoreCalled("setReport", id)

\* addTimeline(incidentId, event, details)
AddTimeline ==
    /\ storeCalls < MaxStoreCalls
    /\ \E id \in StoreIds :
          /\ IF id \notin DOMAIN incidents
                THEN StoreReturn
                ELSE /\ incidents' = addTimeline(incidents, id, "note", "")
                     /\ UNCHANGED eventHistory
                     /\ raised' = FALSE
          /\ StoreCalled("addTimeline", id)

\* The subscribers of the bus either all return or one throws on the events
\* of one store operation.
StoreSpecInit ==
    /\ EngineInit
    /\ throwOn \in {{}, {"incident:update"}, {"recovery:action"}}
    /\ BusInit /\ stream = 1
    /\ CallsIdle
    /\ StoreIdle
    /\ ProbesIdle

StoreNext ==
    \/ CreateIncident
    \/ UpdateStatus
    \/ AddRecoveryAttempt
    \/ SetRootCause
    \/ SetReport
    \/ AddTimeline

StoreSpec == StoreSpecInit /\ [][StoreNext]_vars

----------------------------------------------------------------------------
(* One getHealthSnapshot() call on its own *)

\* What a step of the call leaves alone.
ProbeFrame ==
    /\ UNCHANGED <<running, pollTimer, pipelineRunning, lastHealthSnapshot,
                   consecutiveHealthy, consecutiveUnhealthy, polls, active,
                   incidents, throwOn, runs, pollLog>>
    /\ UNCHANGED <<handlers, published, clears, stream, notified>>
    /\ UNCHANGED <<callVars, storeVars, givenProbes>>

\* The promise of checkDemoAppHealth() settles.
CheckDemoAppHealth ==
    /\ ~probed.demoApp.settled
    /\ LET demoApp == checkDemoAppHealth(givenProbes.demoApp) IN
       probed' = [probed EXCEPT !.demoApp =
                     [settled |-> TRUE, healthy |-> demoApp.healthy,
                      statusCode |-> demoApp.statusCode]]
    /\ UNCHANGED <<returnedSnapshot, eventHistory, raised>>
    /\ ProbeFrame

\* The promise of checkPrometheusHealth() settles.
CheckPrometheusHealth ==
    /\ ~probed.prometheus.settled
    /\ probed' = [probed EXCEPT !.prometheus =
                     [settled |-> TRUE,
                      healthy |-> checkPrometheusHealth(givenProbes.prometheus).healthy]]
    /\ UNCHANGED <<returnedSnapshot, eventHistory, raised>>
    /\ ProbeFrame

\* The promise of getMetrics() settles: its five queries have settled.
GetMetrics ==
    /\ ~probed.metrics.settled
    /\ LET metrics == getMetrics(givenProbes.queries) IN
       probed' = [probed EXCEPT !.metrics =
                     [settled |-> TRUE, errorRate |-> metrics.errorRate,
                      latencyP99Ms |-> metrics.latencyP99Ms,
                      memoryUsageMB |-> metrics.memoryUsageMB,
                      podRestarts |-> metrics.podRestarts,
                      httpRequestsTotal |-> metrics.httpRequestsTotal]]
    /\ UNCHANGED <<returnedSnapshot, eventHistory, raised>>
    /\ ProbeFrame

\* getHealthSnapshot() after Promise.all: the snapshot is assembled,
\* health:healthy or health:degraded is published, the snapshot returned.
GetHealthSnapshot ==
    /\ probed.demoApp.settled /\ probed.prometheus.settled /\ probed.metrics.settled
    /\ returnedSnapshot.state = "pending"
    /\ LET status == IF probed.demoApp.healthy THEN "health:healthy"
                                               ELSE "health:degraded"
       IN /\ eventHistory' = pushHistory(eventHistory, BusEvent(status, 0, 1))
          /\ raised' = EmitThrows(status)
          /\ returnedSnapshot' =
                [state |-> IF EmitThrows(status) THEN "raised" ELSE "returned",
                 demoApp |-> probed.demoApp,
                 database |-> [healthy |-> probed.demoApp.healthy],
                 prometheus |-> probed.prometheus,
                 metrics |-> probed.metrics]
    /\ UNCHANGED probed
    /\ ProbeFrame

\* Every way the sub-probes can end, with subscribers that return or throw
\* on one of the two health events.
ProbeSpecInit ==
    /\ EngineInit
    /\ throwOn \in {{}, {"health:healthy"}, {"health:degraded"}}
    /\ BusInit /\ stream = 1
    /\ CallsIdle
    /\ StoreIdle
    /\ givenProbes \in [demoApp : DemoAppOutcomes,
                        prometheus : PrometheusOutcomes,
                        queries : [1..5 -> QueryOutcomes]]
    /\ probed = NothingProbed
    /\ returnedSnapshot = NoneReturned

ProbeNext ==
    \/ CheckDemoAppHealth
    \/ CheckPrometheusHealth
    \/ GetMetrics
    \/ GetHealthSnapshot

ProbeSpec == ProbeSpecInit /\ [][ProbeNext]_vars

----------------------------------------------------------------------------
(* Vocabulary of the properties *)

\* The positions of monitoringLoop() outside runPipeline().
PollPcs ==
    {"idle", "await_snapshot", "record", "classify", "confirm",
     "anomaly_emit", "run_pipeline"}

\* The poll is inside runPipeline(): the guard was set and not yet cleared.
InPipeline(p) == polls[p].pc \notin PollPcs

\* The incidents getActiveIncident() can return.
ActiveIncidents == {i \in DOMAIN incidents : IsActiveStatus(incidents[i].status)}

IsPrefix(s, t) == Len(s) <= Len(t) /\ SubSeq(t, 1, Len(s)) = s

\* The two status sequences of the incident state machine.
SelfHealStatuses == <<"detected", "analyzing", "healing", "resolved">>
EscalationStatuses ==
    <<"detected", "analyzing", "healing", "escalated", "recovering", "resolved">>

\* How often a stage was entered in a pipeline run.
TimesStarted(run, agent) ==
    Cardinality({k \in DOMAIN run.started : run.started[k] = agent})

\* A stage before the Reporter handed a failure result back to runPipeline().
EarlierStageFailed(run) ==
    \E k \in DOMAIN run.results :
        run.results[k].agent < 7 /\ ~run.results[k].success

----------------------------------------------------------------------------
(* Single active incident and mutual exclusion *)

\* C1: in every reachable state at most one incident of the store has a
\* status other than resolved or failed.
C1_AtMostOneActiveIncident == Cardinality(ActiveIncidents) <= 1

\* A poll has counted a confirming anomaly while an earlier incident, left
\* behind by a pipeline that has ended, is still active: the poll is about to
\* decide whether to open another one.
C1_Witness ==
    \E p \in Slots :
        /\ polls[p].pc = "confirm"
        /\ consecutiveUnhealthy >= UnhealthyThreshold
        /\ ~pipelineRunning
        /\ ActiveIncidents /= {}

\* C2: at most one recovery pipeline executes at any time, and runPipeline()
\* is never entered while pipelineRunning is true, overlapping polls that
\* both observe an anomaly included.
C2_AtMostOnePipeline ==
    /\ Cardinality({p \in Slots : InPipeline(p)}) <= 1
    /\ \A p \in Slots : polls[p].pc = "run_pipeline" => ~pipelineRunning

\* A poll that was already awaiting its snapshot has observed an anomaly and
\* counted it past the threshold while the pipeline of another poll runs.
C2_Witness ==
    \E p, q \in Slots :
        /\ polls[p].pc = "confirm"
        /\ consecutiveUnhealthy >= UnhealthyThreshold
        /\ InPipeline(q)
        /\ pipelineRunning

\* C3: while pipelineRunning is set, no poll other than the owner of the
\* pipeline takes effect: none goes on to record its snapshot and publish
\* health:check, and none goes on to change the consecutive counters, even
\* when it began awaiting its snapshot before the pipeline started.
C3_NoPollOverlapsPipeline ==
    [][pipelineRunning =>
         \A p \in Slots :
            /\ polls[p].pc = "record" => polls'[p].pc = "record"
            /\ polls[p].pc = "classify" => polls'[p].pc = "classify"]_vars

----------------------------------------------------------------------------
(* Hysteresis *)

\* C4: an incident is created only in a poll whose anomaly brought
\* consecutiveUnhealthy to at least 2, the previous counter update being an
\* anomalous poll as well (no healthy poll and no pipeline completion in
\* between); so an anomalous poll followed by a healthy one opens none.
C4_IncidentOnlyAfterTwoAnomalies ==
    [][Len(incidents') > Len(incidents) =>
         /\ consecutiveUnhealthy >= 2
         /\ pollLog = <<"anomalous", "anomalous">>]_vars

\* The first incident has just been created by the second of two anomalous
\* polls.
C4_Witness ==
    \E p \in Slots :
        /\ polls[p].pc = "agent_start"
        /\ polls[p].agent = 1
        /\ Len(incidents) = 1
        /\ consecutiveUnhealthy = 2
        /\ pollLog = <<"anomalous", "anomalous">>

\* C5: from consecutiveUnhealthy = 0 with no active incident and no pipeline
\* running, the first anomalous poll creates no incident and the second one
\* creates exactly one and runs the pipeline for it: the poll that has counted
\* the first anomaly returns, and the poll that has counted the second does
\* not return before it has entered runPipeline() and created the incident.
C5_TwoAnomaliesOpenOneIncident ==
    [][\A p \in Slots :
          /\ (polls[p].pc = "confirm" /\ consecutiveUnhealthy = 1)
                => polls'[p].pc = "idle" /\ incidents' = incidents
          /\ (/\ polls[p].pc \in {"confirm", "anomaly_emit", "run_pipeline"}
              /\ consecutiveUnhealthy = 2
              /\ ~pipelineRunning
              /\ ActiveIncidents = {})
                => polls'[p].pc /= "idle"
          /\ (polls[p].pc = "run_pipeline" /\ polls'[p].pc /= "run_pipeline")
                => Len(incidents') = Len(incidents) + 1]_vars

----------------------------------------------------------------------------
(* The pipeline guard *)

\* C6: pipelineRunning is false whenever no runPipeline() call is executing,
\* that is whenever every call made so far has returned, normally or by an
\* error (one thrown while creating the incident or publishing an event
\* included); so no error leaves the guard set for the polls that follow.
C6_GuardClearedOnReturn ==
    (\A p \in Slots : ~InPipeline(p)) => ~pipelineRunning

\* A pipeline has ended in its outer catch, and since then a timer tick has
\* started a poll that passed the guard (the owner's slot was free again).
C6_Witness ==
    /\ \E i \in DOMAIN runs : runs[i].outcome = "error"
    /\ ~pipelineRunning
    /\ \A p \in Slots : polls[p].pc \in {"await_snapshot", "record", "classify"}

----------------------------------------------------------------------------
(* Reporter and the incident state machine *)

\* C7: for every incident whose pipeline has ended, the Reporter ran exactly
\* once, setReport() was called exactly once, and the incident is resolved.
C7_ReporterOncePerIncident ==
    \A i \in DOMAIN runs :
        runs[i].outcome /= "running" =>
            /\ TimesStarted(runs[i], 7) = 1
            /\ runs[i].reports = 1
            /\ incidents[i].status = "resolved"

\* C8: when a stage before the Reporter has returned a failure result, the
\* pipeline continues: once it has completed, the Reporter was the last
\* stage entered and the incident has a terminal status.
C8_FailureResultStillReports ==
    \A i \in DOMAIN runs :
        (runs[i].outcome = "completed" /\ EarlierStageFailed(runs[i])) =>
            /\ runs[i].started[Len(runs[i].started)] = 7
            /\ ~IsActiveStatus(incidents[i].status)

\* C9: the statuses an incident has taken so far are always an initial part
\* of detected, analyzing, healing, resolved (the decision was to resolve) or
\* of detected, analyzing, healing, escalated, recovering, resolved (the
\* decision was to escalate); none is skipped, repeated or revisited, the
\* incident's status is the last of them, and nothing follows resolved.
C9_StatusSequence ==
    /\ \A i \in DOMAIN runs :
          /\ \/ IsPrefix(runs[i].statuses, SelfHealStatuses)
             \/ IsPrefix(runs[i].statuses, EscalationStatuses)
          /\ incidents[i].status = runs[i].statuses[Len(runs[i].statuses)]
    /\ \A p \in Slots :
          InPipeline(p) =>
             /\ polls[p].decision = "resolved"
                   => IsPrefix(runs[polls[p].incidentId].statuses, SelfHealStatuses)
             /\ polls[p].decision = "escalate_dr"
                   => IsPrefix(runs[polls[p].incidentId].statuses, EscalationStatuses)

\* An incident has gone through the whole escalation sequence, and another
\* through the whole self-heal sequence.
C9_Witness ==
    /\ \E i \in DOMAIN runs : runs[i].statuses = EscalationStatuses
    /\ \E i \in DOMAIN runs : runs[i].statuses = SelfHealStatuses

\* C10: when a pipeline has ended in runPipeline()'s outer catch, its
\* incident has the terminal status failed.
C10_AbortedIncidentFailed ==
    \A i \in DOMAIN runs :
        runs[i].outcome = "error" => incidents[i].status = "failed"

----------------------------------------------------------------------------
(* Incident records and the stage wrapper *)

\* C11: for every incident, attemptedActions and timeline are append-only
\* across every step of the store and the pipeline: the incident stays in the
\* store and what each of the two held before the step is an initial part of
\* what it holds after it.
C11_AppendOnly ==
    [][\A i \in DOMAIN incidents :
          /\ i \in DOMAIN incidents'
          /\ IsPrefix(incidents[i].timeline, incidents'[i].timeline)
          /\ IsPrefix(incidents[i].attemptedActions, incidents'[i].attemptedActions)]_vars

\* An incident that went through self-healing and disaster recovery holds
\* both recovery attempts and the timeline entries of its stages.
C11_Witness ==
    \E i \in DOMAIN incidents :
        /\ Len(incidents[i].attemptedActions) = 2
        /\ Len(incidents[i].timeline) >= 10

\* C12: every status transition made through updateStatus() appends a
\* TimelineEvent to the incident's timeline (and publishes a bus event): a
\* step that changes the status of an incident lengthens its timeline.
C12_TransitionAddsTimelineEvent ==
    [][\A i \in DOMAIN incidents :
          incidents'[i].status /= incidents[i].status
             => Len(incidents'[i].timeline) > Len(incidents[i].timeline)]_vars

\* C13: every stage invocation publishes agent:start and then exactly one of
\* agent:complete and agent:error, and hands a result back to runPipeline():
\* after agent:start the body is entered, after agent:complete the result is
\* returned at once (agent:error is not published as well), and after
\* agent:error the failure result is returned; no error leaves the wrapper.
C13_StageAlwaysReturnsResult ==
    [][\A p \in Slots :
          /\ polls[p].pc = "agent_start" => polls'[p].pc /= "pipeline_catch"
          /\ polls[p].pc = "agent_complete" => polls'[p].pc = "after_stage"
          /\ polls[p].pc = "agent_catch" => polls'[p].pc = "after_stage"]_vars

----------------------------------------------------------------------------
(* Event bus *)

\* The k-th event published since the last clear.
Published(k) == BusEvent(TypeOf(stream, k), clears, k)

\* The last n entries of a sequence.
LastN(seq, n) == SubSeq(seq, Len(seq) - n + 1, Len(seq))

Min(a, b) == IF a < b THEN a ELSE b

\* The limits a reader of the history asks for.
Limits == {0, 1, 2, 3, maxHistory, maxHistory + 1}

\* C14: after any sequence of publishes the history holds at most 500
\* events, and it is exactly the most recent min(n, 500) of the n events
\* published since the last clear, in publish order.
C14_HistoryIsMostRecent ==
    /\ Len(eventHistory) <= maxHistory
    /\ LET kept == Min(published, maxHistory) IN
       eventHistory = [k \in 1..kept |-> Published(published - kept + k)]

\* More than 500 events were published after a clear: the oldest are gone.
C14_Witness ==
    /\ clears = 1
    /\ published = maxHistory + 2
    /\ eventHistory[1] = Published(3)

\* C15: a subscriber that throws during a publish neither keeps the
\* subscribers registered after it from being notified nor makes the publish
\* raise to its caller: every emit() returns normally having called every
\* registered subscriber.
C15_SubscribersIsolated ==
    [][published' = published + 1 =>
          /\ ~raised'
          /\ Len(notified') = Len(handlers)]_vars

\* C16: emit() first appends the event to the history and then calls every
\* registered subscriber exactly once, in subscription order, before it
\* returns; each of them finds the event it receives as the newest entry.
C16_PushThenNotifyAll ==
    [][published' = published + 1 =>
          /\ eventHistory'[Len(eventHistory')] = Published(published + 1)
          /\ notified' = [k \in 1..Len(handlers) |->
                             [handler |-> k, newest |-> published + 1]]]_vars

\* C17: for every limit >= 0, getHistory(limit) is the last
\* min(limit, length) events of the history (none for limit 0), and
\* getHistoryByType(type, limit) is the last min(limit, k) of the k retained
\* events of that type.
C17_HistoryReads ==
    \A limit \in Limits :
        /\ getHistory(eventHistory, limit)
              = LastN(eventHistory, Min(limit, Len(eventHistory)))
        /\ \A type \in {"health:check", "incident:update", "agent:start"} :
              LET ofType == SelectSeq(eventHistory, LAMBDA e : e.type = type) IN
              getHistoryByType(eventHistory, type, limit)
                 = LastN(ofType, Min(limit, Len(ofType)))

----------------------------------------------------------------------------
(* Classifier and recovery decision *)

\* The ordered rules of the classification, first match wins.
FirstMatch(s) ==
    CASE s.statusCode = 0 -> Anomaly("service_down", "critical")
      [] s.statusCode /= 0 /\ s.statusCode = 503 -> Anomaly("service_down", "high")
      [] s.statusCode \notin {0, 503} /\ s.responseTimeMs > 2000
            -> Anomaly("latency_spike", "high")
      [] s.statusCode \notin {0, 503} /\ s.responseTimeMs <= 2000 /\ s.errorRate > 5
            -> Anomaly("dependency_failure", "high")
      [] s.statusCode \notin {0, 503} /\ s.responseTimeMs <= 2000 /\ s.errorRate <= 5
            /\ s.memoryUsageMB > 200
            -> Anomaly("memory_leak", "medium")
      [] OTHER -> NoAnomaly

C19_FirstMatchOfOrderedRules ==
    (/\ foundAnomaly /= Pending
     /\ givenSnapshot.statusCode \in {0, 503} => ~givenSnapshot.healthy)
        => foundAnomaly = FirstMatch(givenSnapshot)

\* A snapshot that sits exactly on the latency threshold and exceeds the
\* error-rate and the memory thresholds was classified by the error rate.
C19_Witness ==
    /\ givenSnapshot.statusCode = 200
    /\ givenSnapshot.responseTimeMs = LatencyLimitMs
    /\ givenSnapshot.errorRate = ErrorRateLimit + 1
    /\ givenSnapshot.memoryUsageMB = MemoryLimitMB + 1
    /\ foundAnomaly = Anomaly("dependency_failure", "high")

----------------------------------------------------------------------------
(* Stage order *)

\* The two orders in which runPipeline() enters the stages.
SelfHealOrder == <<1, 2, 3, 4, 7>>
EscalationOrder == <<1, 2, 3, 4, 5, 6, 7>>

\* The Self-Healing stage found the service healthy after its reset: the
\* attempt it recorded on the incident is a success.
Healed(i) ==
    \E k \in DOMAIN incidents[i].attemptedActions :
        incidents[i].attemptedActions[k] = [action |-> "restart_pod", success |-> TRUE]

\* C21: in every pipeline run the stages are entered one after another, each
\* only after the one before it has handed back its result (so after its
\* agent:complete or agent:error): Observability, Analyzer, Self-Healing,
\* Recovery Decision; then the Reporter alone when self-healing succeeded,
\* and Disaster Recovery, Traffic Switch, Reporter when it did not.  A run
\* that has completed has entered every stage of its order.
C21_StagesInOrder ==
    \A i \in DOMAIN runs :
        LET order == IF Healed(i) THEN SelfHealOrder ELSE EscalationOrder IN
        /\ IsPrefix(runs[i].started, order)
        /\ Len(runs[i].started) <= Len(runs[i].results) + 1
        /\ \A k \in DOMAIN runs[i].results :
              k \in DOMAIN runs[i].started
                 /\ runs[i].results[k].agent = runs[i].started[k]
        /\ runs[i].outcome = "completed" => runs[i].started = order

\* Disaster Recovery ran out of health re-checks: the attempt it recorded on
\* the incident is a failure.
RecoveryExhausted(i) ==
    \E k \in DOMAIN incidents[i].attemptedActions :
        incidents[i].attemptedActions[k] = [action |-> "restore_database", success |-> FALSE]

\* C22: when self-healing has failed and all 5 health re-checks of Disaster
\* Recovery have failed, the Traffic Switch stage short-circuits with traffic
\* status rolled_back, and the run still ends with the Reporter's report
\* stored on a resolved incident.
C22_ShortCircuitRolledBack ==
    /\ \A p \in Slots :
          (/\ polls[p].pc = "agent_complete"
           /\ polls[p].agent = 6
           /\ polls[p].readyForTraffic = "false"
           /\ RecoveryExhausted(polls[p].incidentId)
           /\ ~Healed(polls[p].incidentId))
              => polls[p].data.trafficStatus = "rolled_back"
    /\ \A i \in DOMAIN runs :
          (/\ runs[i].outcome = "completed"
           /\ RecoveryExhausted(i)
           /\ ~Healed(i))
              => incidents[i].report.set /\ incidents[i].status = "resolved"

----------------------------------------------------------------------------
(* Polling *)

\* C23: a timer tick (or any other call of monitoringLoop()) made while
\* pipelineRunning is true does nothing: no poll begins, so no snapshot is
\* requested for it and none is kept for later, and the counters and
\* lastHealthSnapshot are left as they are by that call.
C23_TickSkippedWhilePipelineRuns ==
    [][pipelineRunning =>
         /\ \A p \in Slots : polls[p].pc = "idle" => polls'[p].pc = "idle"
         /\ (active = 0 /\ \A p \in Slots : polls'[p].pc = polls[p].pc)
               => UNCHANGED <<lastHealthSnapshot, consecutiveHealthy,
                              consecutiveUnhealthy, incidents, runs>>]_vars

\* The timer is armed and fires while a pipeline sleeps inside a stage and
\* another monitoringLoop() call could begin.
C23_Witness ==
    /\ pipelineRunning
    /\ pollTimer
    /\ active = 0
    /\ \E p \in Slots : polls[p].pc = "idle"
    /\ \E p \in Slots : polls[p].pc = "heal_reset"

\* C24: every poll that reaches classification changes the counters in
\* exactly one of two ways -- no anomaly: consecutiveHealthy + 1 and
\* consecutiveUnhealthy = 0; anomaly: consecutiveUnhealthy + 1 and
\* consecutiveHealthy = 0 -- and in every reachable state at least one of the
\* two counters is 0.
C24_OneCounterIsZero ==
    /\ [](consecutiveHealthy = 0 \/ consecutiveUnhealthy = 0)
    /\ [][\A p \in Slots :
             (polls[p].pc = "classify" /\ polls'[p].pc /= "classify") =>
                IF detectAnomalies(polls[p].snapshot).detected
                   THEN /\ consecutiveUnhealthy' = consecutiveUnhealthy + 1
                        /\ consecutiveHealthy' = 0
                   ELSE /\ consecutiveHealthy' = consecutiveHealthy + 1
                        /\ consecutiveUnhealthy' = 0]_vars

\* An anomalous poll has just been classified after a healthy one: the
\* healthy counter is back at 0 and the unhealthy counter is 1.
C24_Witness ==
    /\ pollLog = <<"healthy", "anomalous">>
    /\ consecutiveHealthy = 0
    /\ consecutiveUnhealthy = 1
    /\ \E p \in Slots : polls[p].pc = "confirm"

\* C25: whenever a runPipeline() call ends and clears the guard,
\* consecutiveUnhealthy is 0; so an incident opened after an earlier pipeline
\* run follows two anomalous polls counted since that run ended.
C25_CounterResetWhenPipelineEnds ==
    [][/\ (pipelineRunning /\ ~pipelineRunning') => consecutiveUnhealthy' = 0
       /\ (Len(incidents') > Len(incidents) /\ Len(incidents) >= 1)
             => pollLog = <<"anomalous", "anomalous">>]_vars

----------------------------------------------------------------------------
(* start() and stop() *)

\* A monitoringLoop() call begins in this step.
PollBegins == \E p \in Slots : polls[p].pc = "idle" /\ polls'[p].pc = "await_snapshot"

\* C26: start() is idempotent and polls at once: a call made while not
\* running sets running, arms the timer (none is armed at that moment, so
\* exactly one is) and calls monitoringLoop() immediately, which begins a
\* poll unless a pipeline is running; while running, no step arms or cancels
\* a timer, so a second start() arms none.
C26_StartIdempotentPollsAtOnce ==
    /\ [](~running => ~pollTimer)
    /\ [][/\ (~running /\ running')
                => /\ pollTimer'
                   /\ ~pipelineRunning => PollBegins
          /\ (running /\ running') => pollTimer' = pollTimer]_vars

\* C27: stop() is idempotent and halts polling: every step that leaves
\* running false leaves the timer cancelled, stop() changes nothing but
\* running and the timer, no monitoringLoop() call begins while running is
\* false except in the start() that sets it again, and a stop() made while
\* running is false changes nothing.
C27_StopHaltsPolling ==
    /\ [](~running => ~ENABLED (Stop /\ vars' /= vars))
    /\ [][/\ ~running' => ~pollTimer'
          /\ (running /\ ~running')
                => UNCHANGED <<pipelineRunning, lastHealthSnapshot,
                               consecutiveHealthy, consecutiveUnhealthy,
                               polls, incidents, runs>>
          /\ (~running /\ PollBegins) => running']_vars

\* stop() was called while a poll was awaiting its snapshot: the stopped
\* orchestrator has a poll in flight and no timer.
C27_Witness ==
    /\ ~running
    /\ ~pollTimer
    /\ active = 0
    /\ \E p \in Slots : polls[p].pc = "await_snapshot"

----------------------------------------------------------------------------
(* Incident store *)

\* C28: updateStatus, addRecoveryAttempt, setRootCause, setReport and
\* addTimeline called with an id under which the store holds no incident are
\* no-ops: the call returns without an error, no incident is changed or
\* added, and no event is published.
C28_UnknownIdIsNoOp ==
    [][(/\ storeCalls' = storeCalls + 1
        /\ lastCall'.op /= "createIncident"
        /\ lastCall'.id \notin DOMAIN incidents)
          => /\ incidents' = incidents
             /\ eventHistory' = eventHistory
             /\ ~raised']_vars

\* updateStatus() has just been called with an unknown id on a store that
\* holds an incident, after a call that published an event to a subscriber
\* that throws on incident:update.
C28_Witness ==
    /\ lastCall.op = "updateStatus"
    /\ lastCall.id \notin DOMAIN incidents
    /\ Len(incidents) >= 1
    /\ Len(eventHistory) >= 1
    /\ throwOn = {"incident:update"}
    /\ ~raised

\* report.timeline as a reader of the report finds it: the Reporter stores
\* the incident's own timeline array in the report, not a copy of it.
reportTimeline(incident) ==
    IF incident.report.sharesTimeline THEN incident.timeline ELSE <<>>

\* C29: once the Reporter has stored an incident's report, the report never
\* changes: no step replaces it, and its timeline stays as it was when the
\* report was created, whatever is appended to the incident's timeline
\* afterwards.
C29_ReportImmutable ==
    [][\A i \in DOMAIN incidents :
          incidents[i].report.set =>
             /\ incidents'[i].report = incidents[i].report
             /\ reportTimeline(incidents'[i]) = reportTimeline(incidents[i])]_vars

----------------------------------------------------------------------------
(* Health snapshot *)

\* C30: getHealthSnapshot() never raises: however the reachability probe,
\* the backend liveness probe and the five metric queries end, it returns a
\* snapshot in which a failed or timed-out service probe gives status code 0
\* and healthy false, a failed backend probe healthy false and a failed query
\* the metric 0, every other sub-result is what its probe obtained, and it
\* has published exactly one event, health:healthy or health:degraded.
C30_SnapshotNeverRaises ==
    returnedSnapshot.state /= "pending" =>
        /\ returnedSnapshot.state = "returned"
        /\ ~raised
        /\ returnedSnapshot.demoApp.healthy = (givenProbes.demoApp = "healthy")
        /\ returnedSnapshot.demoApp.statusCode =
              (CASE givenProbes.demoApp \in {"healthy", "degraded"} -> 200
                 [] givenProbes.demoApp = "unavailable" -> 503
                 [] OTHER -> 0)
        /\ returnedSnapshot.prometheus.healthy = (givenProbes.prometheus = "ok")
        /\ \A k \in 1..5 :
              <<returnedSnapshot.metrics.errorRate,
                returnedSnapshot.metrics.latencyP99Ms,
                returnedSnapshot.metrics.memoryUsageMB,
                returnedSnapshot.metrics.podRestarts,
                returnedSnapshot.metrics.httpRequestsTotal>>[k]
                 = IF givenProbes.queries[k] = "value" THEN MetricValues[k] ELSE 0
        /\ Len(eventHistory) = 1
        /\ eventHistory[1].type \in {"health:healthy", "health:degraded"}

----------------------------------------------------------------------------
(* Termination *)

\* C31: every started pipeline run terminates: when every timer expires and
\* every request returns or fails, pipelineRunning, once set, becomes false
\* again; the run enters no stage twice and Disaster Recovery makes at most 5
\* health re-checks.
C31_PipelineTerminates ==
    /\ pipelineRunning ~> ~pipelineRunning
    /\ [](\A i \in DOMAIN runs : \A agent \in 1..7 :
             TimesStarted(runs[i], agent) <= 1)
    /\ [](\A p \in Slots : polls[p].i <= DRHealthChecks)

\* A run whose Disaster Recovery stage used up all its re-checks has ended
\* and the guard is clear.
C31_Witness ==
    /\ ~pipelineRunning
    /\ \E i \in DOMAIN runs :
          runs[i].outcome = "completed" /\ RecoveryExhausted(i)

----------------------------------------------------------------------------
(* The stages *)

\* C32: the Self-Healing stage appends exactly one RecoveryAttempt to the
\* incident on every outcome: whenever the stage has handed back its result
\* the incident holds one attempt; for a token without a handler no reset
\* request is issued and the attempt and the result are failures.
C32_HealingRecordsOneAttempt ==
    /\ [](\A p \in Slots :
             (polls[p].pc = "after_stage" /\ polls[p].result.agent = 3) =>
                /\ Len(incidents[polls[p].incidentId].attemptedActions) = 1
                /\ polls[p].fixStrategy \notin KnownStrategies =>
                      /\ ~incidents[polls[p].incidentId].attemptedActions[1].success
                      /\ polls[p].result.data.success /= "true")
    /\ [][\A p \in Slots :
             (/\ polls[p].pc = "heal_switch"
              /\ polls[p].fixStrategy \notin KnownStrategies)
                => polls'[p].pc = "heal_attempt" /\ ~polls'[p].success]_vars

C34_RecoveryChecksAndRecords ==
    /\ [](\A p \in Slots :
             /\ polls[p].pc \in {"dr_check", "dr_check_sleep"} =>
                   ~polls[p].recovered /\ polls[p].i < DRHealthChecks
             /\ (/\ polls[p].pc = "after_stage"
                 /\ polls[p].result.agent = 5
                 /\ polls[p].result.success) =>
                   polls[p].result.data.readyForTraffic = Bool(polls[p].recovered)
             /\ (polls[p].pc = "after_stage" /\ polls[p].result.agent = 5) =>
                   LET attempts == incidents[polls[p].incidentId].attemptedActions
                       own == {k \in DOMAIN attempts :
                                  attempts[k].action = "restore_database"}
                   IN /\ Cardinality(own) = 1
                      /\ \A k \in own : attempts[k].success = polls[p].recovered)
    /\ [][\A p \in Slots :
             /\ (polls'[p].recovered /\ ~polls[p].recovered) =>
                   polls[p].pc = "dr_check" /\ polls'[p].pc = "dr_attempt"
             /\ (polls[p].pc = "dr_check_sleep" /\ polls'[p].pc = "dr_attempt") =>
                   polls'[p].i = DRHealthChecks]_vars

\* C35: Traffic Switch makes no health check when the previous stage
\* reported not ready; otherwise it goes on to exactly one final health
\* check and reports complete exactly when that check passes, rolled_back
\* otherwise; traffic:complete is published exactly when the result is
\* complete.
C35_TrafficSwitchChecksOnce ==
    [][\A p \in Slots :
          LET me == polls[p]
              then == polls'[p]
          IN /\ (then.pc = "ts_check" /\ me.pc /= "ts_check") =>
                   me.pc = "ts_verify" /\ Truthy(me.readyForTraffic)
             /\ (me.pc = "ts_switching" /\ then.pc /= "ts_switching") =>
                   IF Truthy(me.readyForTraffic)
                      THEN then.pc = "ts_verify"
                      ELSE then.pc = "agent_complete"
             /\ (me.pc = "ts_verify" /\ then.pc /= "ts_verify") =>
                   then.pc = "ts_check"
             /\ (me.pc = "ts_check" /\ then.pc /= "ts_check") =>
                   \/ then.pc = "ts_complete"
                   \/ /\ then.pc = "agent_complete"
                      /\ then.data.trafficStatus = "rolled_back"
             /\ (me.pc = "ts_complete" /\ then.pc /= "ts_complete") =>
                   /\ then.pc = "agent_complete"
                   /\ then.data.trafficStatus = "complete"
             /\ (then.data.trafficStatus = "complete"
                    /\ me.data.trafficStatus /= "complete") =>
                   me.pc = "ts_complete"]_vars

----------------------------------------------------------------------------
(* Stopping, resolution and failed pipelines *)

\* C36: stop() does not cancel work in flight: the step that clears the
\* running flag leaves every invocation in flight, the pipeline guard, the
\* incidents and the runs as they are, and a pipeline that is in flight
\* while the orchestrator is stopped still goes on through the Reporter
\* until its incident is resolved.
C36_StopLeavesWorkInFlight ==
    /\ [][(running /\ ~running') =>
             /\ polls' = polls
             /\ pipelineRunning' = pipelineRunning
             /\ incidents' = incidents
             /\ runs' = runs]_vars
    /\ \A i \in 1..MaxIncidents :
          (~running /\ pipelineRunning /\ Len(incidents) = i)
             ~> (/\ i \in DOMAIN incidents
                 /\ incidents[i].status = "resolved"
                 /\ TimesStarted(runs[i], 7) = 1)

\* C37: a resolved incident has a resolution timestamp and a report; the
\* report is stored, and report:generated published, before the status
\* becomes resolved; and the timestamp is set by no transition other than
\* the one to resolved.
C37_ResolvedHasStampAndReport ==
    /\ [](\A i \in DOMAIN incidents :
             incidents[i].status = "resolved" =>
                /\ incidents[i].resolvedAt
                /\ incidents[i].report.set
                /\ runs[i].reports >= 1)
    /\ [][\A i \in DOMAIN incidents :
             /\ (incidents'[i].status = "resolved"
                    /\ incidents[i].status /= "resolved") =>
                   incidents[i].report.set /\ runs[i].reports >= 1
             /\ (incidents'[i].resolvedAt /\ ~incidents[i].resolvedAt) =>
                   /\ incidents'[i].status = "resolved"
                   /\ incidents[i].status /= "resolved"]_vars

C37_Witness ==
    \E i \in DOMAIN incidents :
        /\ incidents[i].status = "resolved"
        /\ incidents[i].resolvedAt
        /\ incidents[i].report.set
        /\ RecoveryExhausted(i)

\* C38: an incident holds exactly one RecoveryAttempt when the Recovery
\* Decision stage runs, and exactly one (self-heal path) or two (escalation
\* path) when it is resolved; the decision's branch for incidents with at
\* least 3 attempts is never taken.
C38_AttemptCounts ==
    /\ \A p \in Slots :
          polls[p].pc = "dec_sleep" =>
             Len(incidents[polls[p].incidentId].attemptedActions) = 1
    /\ \A i \in DOMAIN incidents :
          incidents[i].status = "resolved" =>
             Len(incidents[i].attemptedActions) = (IF Healed(i) THEN 1 ELSE 2)
    /\ \A p \in Slots :
          (polls[p].pc = "after_stage" /\ polls[p].result.agent = 4) =>
             polls[p].result.data.reason /= "failed after attempts"

\* C39: when a pipeline run has ended by an exception before the Reporter
\* resolved its incident, the incident stays non-terminal from then on and
\* no poll opens a new incident: it remains the newest incident of the store.
C39_FailedRunBlocksIncidents ==
    /\ [](\A i \in DOMAIN runs :
             (runs[i].outcome = "error" /\ incidents[i].status /= "resolved") =>
                /\ IsActiveStatus(incidents[i].status)
                /\ ~pipelineRunning
                /\ Len(incidents) = i)
    /\ [][\A i \in DOMAIN runs :
             (runs[i].outcome = "error" /\ incidents[i].status /= "resolved") =>
                /\ incidents'[i].status = incidents[i].status
                /\ Len(incidents') = Len(incidents)]_vars

C39_Witness ==
    /\ \E i \in DOMAIN runs :
          /\ runs[i].outcome = "error"
          /\ IsActiveStatus(incidents[i].status)
          /\ Len(incidents) = i
    /\ consecutiveUnhealthy > UnhealthyThreshold
    /\ \E p \in Slots : polls[p].pc = "confirm"

----------------------------------------------------------------------------
(* Unhealthy answers the classifier has no rule for *)

\* The service probe is unhealthy, its status code is neither 0 nor 503, and
\* latency, error rate and memory are within the thresholds.
Unclassified(snapshot) ==
    /\ ~snapshot.healthy
    /\ snapshot.statusCode \notin {0, 503}
    /\ snapshot.responseTimeMs <= LatencyLimitMs
    /\ snapshot.errorRate <= ErrorRateLimit
    /\ snapshot.memoryUsageMB <= MemoryLimitMB

\* C40: a snapshot whose service probe is unhealthy but whose status code is
\* neither 0 nor 503 and whose latency, error rate and memory are within the
\* thresholds is classified as no anomaly; the poll that classifies it is
\* counted as healthy (consecutiveHealthy + 1, consecutiveUnhealthy = 0) and
\* ends there: it never confirms an anomaly and opens no incident.
C40_UnclassifiedCountsHealthy ==
    /\ [](\A p \in Slots :
             (polls[p].snapshot /= NoSnapshot /\ Unclassified(polls[p].snapshot)) =>
                /\ detectAnomalies(polls[p].snapshot) = NoAnomaly
                /\ polls[p].pc \in {"record", "classify"})
    /\ [][\A p \in Slots :
             (/\ polls[p].pc = "classify"
              /\ Unclassified(polls[p].snapshot)
              /\ polls'[p].pc /= "classify") =>
                /\ consecutiveHealthy' = consecutiveHealthy + 1
                /\ consecutiveUnhealthy' = 0
                /\ polls'[p].pc = "idle"
                /\ incidents' = incidents
                /\ pipelineRunning' = pipelineRunning]_vars

C40_Witness ==
    /\ lastHealthSnapshot /= NoSnapshot
    /\ Unclassified(lastHealthSnapshot)
    /\ pollLog = <<"anomalous", "healthy">>
    /\ consecutiveHealthy = 1
    /\ consecutiveUnhealthy = 0
    /\ incidents = <<>>
    /\ \A p \in Slots : polls[p].pc = "idle"

====
